---- MODULE Spec2Model ----
(***************************************************************************)
(* hashi: the resource engine that keeps a git branch, its worktree and    *)
(* its tmux window consistent.  The two backing stores (git + filesystem,  *)
(* tmux) are the state; every engine operation is one atomic action that   *)
(* threads a "world" record through the adapter calls it issues and leaves *)
(* the calls of that operation in the history variable last.log.           *)
(*                                                                         *)
(* Names are sequences of one-character strings, paths are sequences of    *)
(* path segments, so that validation and path construction are computed.   *)
(***************************************************************************)
EXTENDS Integers, Sequences, FiniteSets, TLC

VARIABLES branches, unmerged, worktrees, session, windows, check, stale, last, steps

vars == <<branches, unmerged, worktrees, session, windows, check, stale, last, steps>>

-----------------------------------------------------------------------------
(* Bounds *)

\* number of adapter calls that fail by injection in one behaviour
MaxFail == 2

-----------------------------------------------------------------------------
(* Names and configuration (CommonParams) *)

DefaultBranch == <<"m">>
NameA == <<"a">>
NameB == <<"b">>
\* a name the Validator rejects (whitespace)
BadName == <<"a", " ">>

ValidNames == {DefaultBranch, NameA, NameB}
ArgNames == ValidNames \cup {BadName}
\* the empty string: "no base given"
NoBase == <<>>

RepoRoot == << <<"repo">> >>
WorktreeDir == <<".worktrees">>

-----------------------------------------------------------------------------
(* strings helpers (Go strings package, on character sequences) *)

ContainsAny(n, chars) == \E i \in 1..Len(n) : n[i] \in chars

Contains(n, sub) ==
    \E i \in 1..(Len(n) - Len(sub) + 1) : SubSeq(n, i, i + Len(sub) - 1) = sub

HasPrefix(n, p) == Len(n) >= Len(p) /\ SubSeq(n, 1, Len(p)) = p

HasSuffix(n, p) == Len(n) >= Len(p) /\ SubSeq(n, Len(n) - Len(p) + 1, Len(n)) = p

\* runes below 0x20 and 0x7f that the model's alphabet contains
ControlChars == {"\t", "\n", "DEL"}

\* the rule table, in source order: <<check, message>>
BranchRuleHit(i, n) ==
    CASE i = 1 -> n = <<>>
      [] i = 2 -> ContainsAny(n, {" ", "\t"})
      [] i = 3 -> ContainsAny(n, ControlChars)
      [] i = 4 -> ContainsAny(n, {"~", "^", "*", "?", "[", "\\"})
      [] i = 5 -> Contains(n, <<":">>)
      [] i = 6 -> Contains(n, <<".", ".">>)
      [] i = 7 -> Contains(n, <<"@", "{">>)
      [] i = 8 -> HasPrefix(n, <<"-">>)
      [] i = 9 -> HasPrefix(n, <<".">>)
      [] i = 10 -> HasSuffix(n, <<".">>)
      [] i = 11 -> HasSuffix(n, <<"/">>)
      [] i = 12 -> Contains(n, <<"/", "/">>)
      [] i = 13 -> HasSuffix(n, <<".", "l", "o", "c", "k">>)

branchRules ==
    << "branch name must not be empty",
       "branch name contains whitespace",
       "branch name contains control character",
       "branch name contains invalid character",
       "branch name contains ':'",
       "branch name contains '..'",
       "branch name contains '@{'",
       "branch name must not start with '-'",
       "branch name must not start with '.'",
       "branch name must not end with '.'",
       "branch name must not end with '/'",
       "branch name contains '//'",
       "branch name must not end with '.lock'" >>

\* a ValidateBranchName that goes through the table and keeps the last match
ValidateBranchNameLastMatch(n) ==
    LET hits == {i \in 1..Len(branchRules) : BranchRuleHit(i, n)}
    IN IF hits = {} THEN ""
       ELSE branchRules[CHOOSE i \in hits : \A j \in hits : j <= i]

\* ValidateBranchName: the message of the first rule that matches, "" for nil
ValidateBranchName(n) ==
    LET hits == {i \in 1..Len(branchRules) : BranchRuleHit(i, n)}
    IN IF hits = {} THEN ""
       ELSE branchRules[CHOOSE i \in hits : \A j \in hits : i <= j]

-----------------------------------------------------------------------------
(* Paths (path/filepath) *)

RECURSIVE SplitSlash(_, _, _)
\* the "/"-separated elements of n; cur is the element being read
SplitSlash(n, cur, acc) ==
    IF n = <<>> THEN Append(acc, cur)
    ELSE IF Head(n) = "/" THEN SplitSlash(Tail(n), <<>>, Append(acc, cur))
    ELSE SplitSlash(Tail(n), Append(cur, Head(n)), acc)

RECURSIVE CleanSegs(_, _)
\* filepath.Clean on elements: drops "" and ".", ".." removes the element before
CleanSegs(segs, acc) ==
    IF segs = <<>> THEN acc
    ELSE LET s == Head(segs)
         IN IF s = <<>> \/ s = <<".">> THEN CleanSegs(Tail(segs), acc)
            ELSE IF s = <<".", ".">>
                 THEN CleanSegs(Tail(segs),
                                IF acc = <<>> THEN acc ELSE SubSeq(acc, 1, Len(acc) - 1))
                 ELSE CleanSegs(Tail(segs), Append(acc, s))

\* CommonParams.WorktreePath: filepath.Join(RepoRoot, WorktreeDir, branch)
WorktreePath(branch) ==
    CleanSegs(RepoRoot \o <<WorktreeDir>> \o SplitSlash(branch, <<>>, <<>>), <<>>)

\* filepath.Dir
Dir(path) == IF path = <<>> THEN <<>> ELSE SubSeq(path, 1, Len(path) - 1)

IsPathPrefix(p, q) == Len(p) <= Len(q) /\ SubSeq(q, 1, Len(p)) = p

-----------------------------------------------------------------------------
(* The world threaded through one operation, and its call log *)

\* br: the branches; unm: those with commits the default branch does not have
World(br, unm, wt, sess, win) ==
    [br |-> br, unm |-> unm, wt |-> wt, sess |-> sess, win |-> win,
     log |-> <<>>, reached |-> {}]

Ev(c, a, ok) == [call |-> c, arg |-> a, ok |-> ok]

Logd(w, c, a, ok) == [w EXCEPT !.log = Append(@, Ev(c, a, ok))]

\* a call site of the engine and whether it is injected to fail
At(F, site) == [site |-> site, fail |-> site \in F]

\* a call made by somebody else than the engine
NoInj == [site |-> "", fail |-> FALSE]

\* the call is logged and its site recorded as reached
LogI(inj, w, c, a, ok) == [Logd(w, c, a, ok) EXCEPT !.reached = @ \cup {inj.site}]

\* result of an adapter call that returns only an error
R(w, ok) == [w |-> w, ok |-> ok]

SeqToSet(s) == {s[i] : i \in 1..Len(s)}

\* the sequences over S of length up to n
SeqsUpTo(S, n) == UNION {[1..k -> S] : k \in 0..n}

\* findBy / findWorktree / findWindow: index of the first match, 0 for nil
findWorktree(wts, branch) ==
    LET hits == {i \in 1..Len(wts) : wts[i].branch = branch}
    IN IF hits = {} THEN 0 ELSE CHOOSE i \in hits : \A j \in hits : i <= j

findWindow(wins, name) ==
    LET hits == {i \in 1..Len(wins) : wins[i].name = name}
    IN IF hits = {} THEN 0 ELSE CHOOSE i \in hits : \A j \in hits : i <= j

-----------------------------------------------------------------------------
(* VCS store: git client (one git command per call) and the filesystem.    *)
(* A call fails when its site is injected to fail (inj) or when git / the  *)
(* OS refuses it in the current store; a failed call changes nothing.      *)

\* what git-check-ref-format refuses among the characters of the model
GitAcceptsRef(n) ==
    /\ n # <<>>
    /\ ~ContainsAny(n, {" ", "\t", "\n", "DEL", "~", "^", ":", "?", "*", "[", "\\"})
    /\ ~Contains(n, <<".", ".">>)
    /\ ~Contains(n, <<"@", "{">>)
    /\ ~Contains(n, <<"/", "/">>)
    /\ ~HasPrefix(n, <<"-">>)
    /\ ~HasPrefix(n, <<".">>)
    /\ ~HasSuffix(n, <<".">>)
    /\ ~HasSuffix(n, <<"/">>)
    /\ ~HasSuffix(n, <<".", "l", "o", "c", "k">>)

CheckedOut(wts, b) == \E i \in 1..Len(wts) : ~wts[i].detached /\ wts[i].branch = b

PathTaken(wts, p) == \E i \in 1..Len(wts) : wts[i].path = p \/ wts[i].dir = p

\* path: where git has the worktree registered; dir: where its directory is;
\* dirty: the working tree has uncommitted changes
Worktree(path, branch, isMain) ==
    [path |-> path, branch |-> branch, isMain |-> isMain, detached |-> FALSE,
     dir |-> path, dirty |-> FALSE]

\* git branch --list -- name
BranchExists(w, inj, name) ==
    [w |-> LogI(inj, w, "BranchExists", <<name>>, ~inj.fail), ok |-> ~inj.fail,
     val |-> ~inj.fail /\ name \in w.br]

\* git worktree list --porcelain
ListWorktrees(w, inj) ==
    [w |-> LogI(inj, w, "ListWorktrees", <<>>, ~inj.fail), ok |-> ~inj.fail,
     val |-> IF inj.fail THEN <<>> ELSE w.wt]

\* git branch --format=%(refname:short): the names of the local branches;
\* CollectState turns the list into a set at once (toSet)
ListBranches(w, inj) ==
    [w |-> LogI(inj, w, "ListBranches", <<>>, ~inj.fail), ok |-> ~inj.fail,
     val |-> IF inj.fail THEN {} ELSE w.br]

\* git branch -m -- old new: the worktree that has old checked out follows
RenameBranch(w, inj, old, new) ==
    LET ok == ~inj.fail /\ old \in w.br /\ new \notin w.br /\ GitAcceptsRef(new)
        w1 == [w EXCEPT !.br = (@ \ {old}) \cup {new},
                        !.unm = IF old \in @ THEN (@ \ {old}) \cup {new} ELSE @,
                        !.wt = [i \in 1..Len(@) |->
                                  IF ~@[i].detached /\ @[i].branch = old
                                  THEN [@[i] EXCEPT !.branch = new] ELSE @[i]]]
    IN R(LogI(inj, IF ok THEN w1 ELSE w, "RenameBranch", <<old, new>>, ok), ok)

\* git [-C dir] branch -D -- name: refused for a branch checked out in a worktree
DeleteBranchFrom(w, inj, dir, name) ==
    LET ok == ~inj.fail /\ name \in w.br /\ ~CheckedOut(w.wt, name)
    IN R(LogI(inj, IF ok THEN [w EXCEPT !.br = @ \ {name}, !.unm = @ \ {name}] ELSE w,
              "DeleteBranch", <<name>>, ok), ok)

DeleteBranch(w, inj, name) == DeleteBranchFrom(w, inj, <<>>, name)

\* git worktree add -- path branch
AddWorktree(w, inj, path, branch) ==
    LET ok == /\ ~inj.fail
              /\ branch \in w.br
              /\ ~CheckedOut(w.wt, branch)
              /\ ~PathTaken(w.wt, path)
    IN R(LogI(inj, IF ok THEN [w EXCEPT !.wt = Append(@, Worktree(path, branch, FALSE))]
              ELSE w, "AddWorktree", <<path, branch>>, ok), ok)

\* git worktree add -b branch -- path base
AddWorktreeNewBranch(w, inj, path, branch, base) ==
    LET ok == /\ ~inj.fail
              /\ branch \notin w.br
              /\ GitAcceptsRef(branch)
              /\ base \in w.br
              /\ ~PathTaken(w.wt, path)
    IN R(LogI(inj, IF ok THEN [w EXCEPT !.br = @ \cup {branch},
                                   !.unm = IF base \in @ THEN @ \cup {branch} ELSE @,
                                   !.wt = Append(@, Worktree(path, branch, FALSE))]
              ELSE w, "AddWorktreeNewBranch", <<path, branch, base>>, ok), ok)

\* git worktree remove --force path: refused for the main working tree
RemoveWorktree(w, inj, path) ==
    LET Goes(x) == x.path = path /\ ~x.isMain /\ x.dir = path
        Stays(x) == ~Goes(x)
        ok == ~inj.fail /\ \E i \in 1..Len(w.wt) : Goes(w.wt[i])
    IN R(LogI(inj, IF ok THEN [w EXCEPT !.wt = SelectSeq(@, Stays)] ELSE w,
              "RemoveWorktree", <<path>>, ok), ok)

\* git worktree repair: the registered path follows the directory
RepairWorktrees(w, inj) ==
    LET ok == ~inj.fail
        w1 == [w EXCEPT !.wt = [i \in 1..Len(w.wt) |->
                                  [w.wt[i] EXCEPT !.path = w.wt[i].dir]]]
    IN R(LogI(inj, IF ok THEN w1 ELSE w, "RepairWorktrees", <<>>, ok), ok)

\* os.Rename(oldPath, newPath) on a worktree directory
osRename(w, inj, oldPath, newPath) ==
    LET src == \E i \in 1..Len(w.wt) : w.wt[i].dir = oldPath
        same == oldPath = newPath
        ok == /\ ~inj.fail
              /\ src
              /\ \/ same
                 \/ /\ ~IsPathPrefix(oldPath, newPath)
                    /\ ~\E i \in 1..Len(w.wt) : w.wt[i].dir = newPath
        w1 == [w EXCEPT !.wt = [i \in 1..Len(@) |->
                                  IF @[i].dir = oldPath
                                  THEN [@[i] EXCEPT !.dir = newPath] ELSE @[i]]]
    IN R(LogI(inj, IF ok THEN w1 ELSE w, "os.Rename", <<oldPath, newPath>>, ok), ok)

-----------------------------------------------------------------------------
(* Session store: tmux.  A target "session:window" resolves only when      *)
(* exactly one window of the session has that name.                        *)

Window(name, active) == [name |-> name, active |-> active]

Resolves(w, name) ==
    w.sess /\ Cardinality({i \in 1..Len(w.win) : w.win[i].name = name}) = 1

Deactivated(wins) == [i \in 1..Len(wins) |-> [wins[i] EXCEPT !.active = FALSE]]

Selected(wins, name) ==
    [i \in 1..Len(wins) |-> [wins[i] EXCEPT !.active = (wins[i].name = name)]]

ActiveIndex(wins) ==
    LET hits == {i \in 1..Len(wins) : wins[i].active}
    IN IF hits = {} THEN Len(wins) ELSE CHOOSE i \in hits : TRUE

\* tmux has-session: (exists, err)
HasSession(w, inj) ==
    [w |-> LogI(inj, w, "HasSession", <<>>, ~inj.fail), ok |-> ~inj.fail, val |-> ~inj.fail /\ w.sess]

\* tmux new-session -d -s name -n window -c dir [initCmd]
NewSession(w, inj, windowName, dir, initCmd) ==
    LET ok == ~inj.fail /\ ~w.sess
    IN R(LogI(inj, IF ok THEN [w EXCEPT !.sess = TRUE,
                                   !.win = <<Window(windowName, TRUE)>>]
              ELSE w, "NewSession", <<windowName, dir, initCmd>>, ok), ok)

\* tmux kill-session
KillSession(w, inj) ==
    LET ok == ~inj.fail /\ w.sess
    IN R(LogI(inj, IF ok THEN [w EXCEPT !.sess = FALSE, !.win = <<>>] ELSE w,
              "KillSession", <<>>, ok), ok)

\* tmux list-windows
ListWindows(w, inj) ==
    LET ok == ~inj.fail /\ w.sess
    IN [w |-> LogI(inj, w, "ListWindows", <<>>, ok), ok |-> ok,
        val |-> IF ok THEN w.win ELSE <<>>]

\* tmux new-window -a -t session -n name -c dir [initCmd]: placed after the
\* current window and made current
NewWindow(w, inj, name, dir, initCmd) ==
    LET ok == ~inj.fail /\ w.sess
        k == ActiveIndex(w.win)
        old == Deactivated(w.win)
        w1 == [w EXCEPT !.win = SubSeq(old, 1, k) \o <<Window(name, TRUE)>>
                                  \o SubSeq(old, k + 1, Len(old))]
    IN R(LogI(inj, IF ok THEN w1 ELSE w, "NewWindow", <<name, dir, initCmd>>, ok), ok)

\* tmux kill-window -t session:window: the session ends with its last window
KillWindow(w, inj, name) ==
    LET ok == ~inj.fail /\ Resolves(w, name)
        Stays(x) == x.name # name
        rest == SelectSeq(w.win, Stays)
        wasActive == \E i \in 1..Len(w.win) : w.win[i].name = name /\ w.win[i].active
        rest2 == IF wasActive /\ rest # <<>>
                 THEN [i \in 1..Len(rest) |-> [rest[i] EXCEPT !.active = (i = 1)]]
                 ELSE rest
        w1 == [w EXCEPT !.win = rest2, !.sess = (rest2 # <<>>)]
    IN R(LogI(inj, IF ok THEN w1 ELSE w, "KillWindow", <<name>>, ok), ok)

\* tmux rename-window -t session:old new
RenameWindow(w, inj, old, new) ==
    LET ok == ~inj.fail /\ Resolves(w, old)
        w1 == [w EXCEPT !.win = [i \in 1..Len(@) |->
                                   IF @[i].name = old
                                   THEN [@[i] EXCEPT !.name = new] ELSE @[i]]]
    IN R(LogI(inj, IF ok THEN w1 ELSE w, "RenameWindow", <<old, new>>, ok), ok)

\* tmux display-message -p '#{pane_current_command}': cmd is what the pane runs
PaneCurrentCommand(w, inj, name, cmd) ==
    LET ok == ~inj.fail /\ Resolves(w, name)
    IN [w |-> LogI(inj, w, "PaneCurrentCommand", <<name>>, ok), ok |-> ok,
        val |-> IF ok THEN cmd ELSE ""]

\* tmux send-keys -t session:window keys...
SendKeys(w, inj, name, dir) ==
    LET ok == ~inj.fail /\ Resolves(w, name)
    IN R(LogI(inj, w, "SendKeys", <<name, dir>>, ok), ok)

\* tmux switch-client -t session:window
SwitchClient(w, inj, name) ==
    LET ok == ~inj.fail /\ Resolves(w, name)
    IN R(LogI(inj, IF ok THEN [w EXCEPT !.win = Selected(@, name)] ELSE w,
              "SwitchClient", <<name>>, ok), ok)

\* tmux attach-session -t session:window
AttachSession(w, inj, name) ==
    LET ok == ~inj.fail /\ Resolves(w, name)
    IN R(LogI(inj, IF ok THEN [w EXCEPT !.win = Selected(@, name)] ELSE w,
              "AttachSession", <<name>>, ok), ok)

-----------------------------------------------------------------------------
(* Shared helpers of the engine.  F is the set of call sites that fail by  *)
(* injection during the operation; a site is named helper.Call.            *)

\* result of New / Switch / Rename: (*OperationResult, error)
Res(w, err, path, created) ==
    [w |-> w, ok |-> (err = ""), err |-> err, path |-> path, created |-> created]

ShellCmd == "zsh"
OtherCmd == "vim"
DefaultShellCommands == {"bash", "zsh", "fish", "sh", "dash", "ksh", "tcsh", "csh"}

isShellCommand(cmd) == cmd \in DefaultShellCommands

InitPipeline == "for __cmd in hooks; do sh -c $__cmd || exit 1; done; exec shell"

\* a buildInitCmd that runs the hooks for a reused worktree too
buildInitCmdAlways(wtCreated, hooks) ==
    IF ~hooks THEN "" ELSE InitPipeline

\* buildInitCmd: "" unless the worktree was created and hooks are configured
buildInitCmd(wtCreated, hooks) ==
    IF ~wtCreated \/ ~hooks THEN "" ELSE InitPipeline

\* ensureParentDir: os.MkdirAll(filepath.Dir(path))
ensureParentDir(w, inj, path) == R(LogI(inj, w, "MkdirAll", <<Dir(path)>>, ~inj.fail), ~inj.fail)

\* copyFiles: copies the configured files into the worktree
copyFiles(w, inj, wtPath) == R(LogI(inj, w, "copyFiles", <<wtPath>>, ~inj.fail), ~inj.fail)

\* cleanWorktreeParent: best-effort os.Remove of the parent, never of the base
cleanWorktreeParent(w, F, wtPath) ==
    LET parent == Dir(wtPath)
        base == RepoRoot \o <<WorktreeDir>>
    IN IF parent # base
       THEN LogI(At(F, "cleanWorktreeParent.Remove"), w, "os.Remove", <<parent>>,
                 "cleanWorktreeParent.Remove" \notin F)
       ELSE w

addWorktree(w, F, path, branch) ==
    LET Made(d) ==
            IF ~d.ok THEN d
            ELSE AddWorktree(d.w, At(F, "addWorktree.AddWorktree"), path, branch)
    IN Made(ensureParentDir(w, At(F, "addWorktree.MkdirAll"), path))

addWorktreeNewBranch(w, F, path, branch, base) ==
    LET Made(d) ==
            IF ~d.ok THEN d
            ELSE AddWorktreeNewBranch(d.w, At(F, "addWorktreeNewBranch.AddWorktreeNewBranch"),
                                      path, branch, base)
    IN Made(ensureParentDir(w, At(F, "addWorktreeNewBranch.MkdirAll"), path))

\* a requireBranchExists that lets a missing branch pass
requireBranchExistsLenient(w, inj, branch) ==
    LET Asked(q) == [w |-> q.w, err |-> IF ~q.ok THEN "adapter" ELSE ""]
    IN Asked(BranchExists(w, inj, branch))

\* requireBranchExists: "" (nil), "notfound" or "adapter"
requireBranchExists(w, inj, branch) ==
    LET Asked(q) ==
            [w |-> q.w, err |-> IF ~q.ok THEN "adapter"
                                ELSE IF ~q.val THEN "notfound" ELSE ""]
    IN Asked(BranchExists(w, inj, branch))

requireBranchNotExists(w, inj, branch) ==
    LET Asked(q) ==
            [w |-> q.w, err |-> IF ~q.ok THEN "adapter"
                                ELSE IF q.val THEN "exists" ELSE ""]
    IN Asked(BranchExists(w, inj, branch))

requireNotDefaultBranch(branch) == IF branch = DefaultBranch THEN "default" ELSE ""

\* findOrCreateWorktree: (path, wasCreated, error)
findOrCreateWorktree(w, F, branch) ==
    LET path == WorktreePath(branch)
        Added(a) ==
            IF ~a.ok THEN Res(a.w, "adapter", <<>>, FALSE)
            ELSE Res(a.w, "", path, TRUE)
        Listed(l) ==
            LET i == findWorktree(l.val, branch)
            IN IF ~l.ok THEN Res(l.w, "adapter", <<>>, FALSE)
               ELSE IF i # 0 THEN Res(l.w, "", l.val[i].path, FALSE)
               ELSE Added(addWorktree(l.w, F, path, branch))
    IN Listed(ListWorktrees(w, At(F, "findOrCreateWorktree.ListWorktrees")))

\* ensureWorktree: the default branch lives in the repository root
ensureWorktree(w, F, branch) ==
    IF branch = DefaultBranch THEN Res(w, "", RepoRoot, FALSE)
    ELSE findOrCreateWorktree(w, F, branch)

\* a sendCd that sends the keys whatever the pane runs
sendCdUnchecked(w, F, window, dir, cmd) ==
    LET Asked(c) ==
            IF ~c.ok THEN c.w
            ELSE SendKeys(c.w, At(F, "sendCd.SendKeys"), window, dir).w
    IN Asked(PaneCurrentCommand(w, At(F, "sendCd.PaneCurrentCommand"), window, cmd))

\* sendCd: cd into dir only when the pane runs a shell; never fails the caller
sendCd(w, F, window, dir, cmd) ==
    LET Asked(c) ==
            IF ~c.ok THEN c.w
            ELSE IF ~isShellCommand(c.val) THEN c.w
            ELSE SendKeys(c.w, At(F, "sendCd.SendKeys"), window, dir).w
    IN Asked(PaneCurrentCommand(w, At(F, "sendCd.PaneCurrentCommand"), window, cmd))

\* an ensureTmux that opens a window without looking for an existing one
ensureTmuxAlwaysNewWindow(w, F, windowName, dir, initCmd, cmd) ==
    LET Listed(l) ==
            IF ~l.ok THEN R(l.w, FALSE)
            ELSE NewWindow(l.w, At(F, "ensureTmux.NewWindow"), windowName, dir, initCmd)
        Asked(h) ==
            IF ~h.ok THEN R(h.w, FALSE)
            ELSE IF ~h.val
                 THEN NewSession(h.w, At(F, "ensureTmux.NewSession"), windowName, dir, initCmd)
            ELSE Listed(ListWindows(h.w, At(F, "ensureTmux.ListWindows")))
    IN Asked(HasSession(w, At(F, "ensureTmux.HasSession")))

\* an ensureTmux that opens the window once more in the session it started
ensureTmuxWindowAfterSession(w, F, windowName, dir, initCmd, cmd) ==
    LET Listed(l) ==
            IF ~l.ok THEN R(l.w, FALSE)
            ELSE IF findWindow(l.val, windowName) # 0
                 THEN R(sendCd(l.w, F, windowName, dir, cmd), TRUE)
            ELSE NewWindow(l.w, At(F, "ensureTmux.NewWindow"), windowName, dir, initCmd)
        Started(n) ==
            IF ~n.ok THEN n
            ELSE NewWindow(n.w, At(F, "ensureTmux.NewWindow"), windowName, dir, initCmd)
        Asked(h) ==
            IF ~h.ok THEN R(h.w, FALSE)
            ELSE IF ~h.val
                 THEN Started(NewSession(h.w, At(F, "ensureTmux.NewSession"),
                                         windowName, dir, initCmd))
            ELSE Listed(ListWindows(h.w, At(F, "ensureTmux.ListWindows")))
    IN Asked(HasSession(w, At(F, "ensureTmux.HasSession")))

\* ensureTmux: create the session, or the window, or cd the existing window
ensureTmux(w, F, windowName, dir, initCmd, cmd) ==
    LET Listed(l) ==
            IF ~l.ok THEN R(l.w, FALSE)
            ELSE IF findWindow(l.val, windowName) # 0
                 THEN R(sendCd(l.w, F, windowName, dir, cmd), TRUE)
            ELSE NewWindow(l.w, At(F, "ensureTmux.NewWindow"), windowName, dir, initCmd)
        Asked(h) ==
            IF ~h.ok THEN R(h.w, FALSE)
            ELSE IF ~h.val
                 THEN NewSession(h.w, At(F, "ensureTmux.NewSession"), windowName, dir, initCmd)
            ELSE Listed(ListWindows(h.w, At(F, "ensureTmux.ListWindows")))
    IN Asked(HasSession(w, At(F, "ensureTmux.HasSession")))

\* a listWindowsSafe that starts the session when there is none
listWindowsSafeStartsSession(w, F) ==
    LET Listed(l) == [w |-> l.w, val |-> l.val, nil |-> ~l.ok]
        Asked(h) ==
            IF ~h.val
            THEN [w |-> NewSession(h.w, At(F, "listWindowsSafe.NewSession"),
                                   DefaultBranch, RepoRoot, "").w,
                  val |-> <<>>, nil |-> TRUE]
            ELSE Listed(ListWindows(h.w, At(F, "listWindowsSafe.ListWindows")))
    IN Asked(HasSession(w, At(F, "listWindowsSafe.HasSession")))

\* listWindowsSafe: nil when the session is absent or a call fails
listWindowsSafe(w, F) ==
    LET Listed(l) == [w |-> l.w, val |-> l.val, nil |-> ~l.ok]
        Asked(h) ==
            IF ~h.val THEN [w |-> h.w, val |-> <<>>, nil |-> TRUE]
            ELSE Listed(ListWindows(h.w, At(F, "listWindowsSafe.ListWindows")))
    IN Asked(HasSession(w, At(F, "listWindowsSafe.HasSession")))

\* connect: switch-client inside tmux, attach-session outside
connect(w, F, windowName, inside) ==
    IF inside THEN SwitchClient(w, At(F, "connect.SwitchClient"), windowName)
    ELSE AttachSession(w, At(F, "connect.AttachSession"), windowName)

finalizeOperation(w, F, branch, wtPath, wtCreated, inside) ==
    LET Connected(c) ==
            IF ~c.ok THEN Res(c.w, "adapter", <<>>, FALSE)
            ELSE Res(c.w, "", wtPath, wtCreated)
    IN Connected(connect(w, F, branch, inside))

-----------------------------------------------------------------------------
(* New *)

\* a rollback that removes the worktree and leaves the branch
rollbackNewKeepsBranch(w, F, wtCreated, branchCreated, wtPath, branch) ==
    IF wtCreated
    THEN RemoveWorktree(w, At(F, "rollbackNew.RemoveWorktree"), wtPath).w
    ELSE w

\* a rollback that deletes the branch whoever created it
rollbackNewDeletesAlways(w, F, wtCreated, branchCreated, wtPath, branch) ==
    LET Branch(w1) ==
            IF wtCreated \/ branchCreated
            THEN DeleteBranch(w1, At(F, "rollbackNew.DeleteBranch"), branch).w
            ELSE w1
    IN Branch(IF wtCreated
              THEN RemoveWorktree(w, At(F, "rollbackNew.RemoveWorktree"), wtPath).w
              ELSE w)

\* rollbackNew: best-effort, worktree first, each only if this call created it
rollbackNew(w, F, wtCreated, branchCreated, wtPath, branch) ==
    LET Branch(w1) ==
            IF branchCreated
            THEN DeleteBranch(w1, At(F, "rollbackNew.DeleteBranch"), branch).w
            ELSE w1
    IN Branch(IF wtCreated
              THEN RemoveWorktree(w, At(F, "rollbackNew.RemoveWorktree"), wtPath).w
              ELSE w)

\* a tail of New that returns the file-copy error without rolling back
NewTailNoRollbackOnCopy(w, F, branch, wtPath, wtCreated, branchCreated, inside, hooks, cmd) ==
    LET initCmd == buildInitCmd(wtCreated, hooks)
        Ensured(t) ==
            IF ~t.ok
            THEN Res(rollbackNew(t.w, F, wtCreated, branchCreated, wtPath, branch),
                     "adapter", <<>>, FALSE)
            ELSE finalizeOperation(t.w, F, branch, wtPath, wtCreated, inside)
        Copied(cp) ==
            IF ~cp.ok
            THEN Res(cp.w, "adapter", <<>>, FALSE)
            ELSE Ensured(ensureTmux(cp.w, F, branch, wtPath, initCmd, cmd))
    IN Copied(IF wtCreated THEN copyFiles(w, At(F, "New.copyFiles"), wtPath)
              ELSE R(w, TRUE))

\* the part of New after the worktree is known: copy, tmux, connect
NewTail(w, F, branch, wtPath, wtCreated, branchCreated, inside, hooks, cmd) ==
    LET initCmd == buildInitCmd(wtCreated, hooks)
        Ensured(t) ==
            IF ~t.ok
            THEN Res(rollbackNew(t.w, F, wtCreated, branchCreated, wtPath, branch),
                     "adapter", <<>>, FALSE)
            ELSE finalizeOperation(t.w, F, branch, wtPath, wtCreated, inside)
        Copied(cp) ==
            IF ~cp.ok
            THEN Res(rollbackNew(cp.w, F, wtCreated, branchCreated, wtPath, branch),
                     "adapter", <<>>, FALSE)
            ELSE Ensured(ensureTmux(cp.w, F, branch, wtPath, initCmd, cmd))
    IN Copied(IF wtCreated THEN copyFiles(w, At(F, "New.copyFiles"), wtPath)
              ELSE R(w, TRUE))

\* a New that accepts a base for a branch that exists, and ignores it
NewIgnoresBaseOfExisting(w, F, branch, base, inside, hooks, cmd) ==
    LET b == IF base = NoBase THEN DefaultBranch ELSE base
        path == WorktreePath(branch)
        Added(a) ==
            IF ~a.ok THEN Res(a.w, "adapter", <<>>, FALSE)
            ELSE NewTail(a.w, F, branch, path, TRUE, TRUE, inside, hooks, cmd)
        BaseChecked(rb) ==
            IF rb.err # "" THEN Res(rb.w, rb.err, <<>>, FALSE)
            ELSE Added(addWorktreeNewBranch(rb.w, F, path, branch, b))
        Ensured(e) ==
            IF ~e.ok THEN Res(e.w, "adapter", <<>>, FALSE)
            ELSE NewTail(e.w, F, branch, e.path, e.created, FALSE, inside, hooks, cmd)
        Asked(q) ==
            IF ~q.ok THEN Res(q.w, "adapter", <<>>, FALSE)
            ELSE IF q.val THEN Ensured(ensureWorktree(q.w, F, branch))
            ELSE BaseChecked(requireBranchExists(
                     q.w, At(F, "requireBranchExists.BranchExists"), b))
    IN IF ValidateBranchName(branch) # "" THEN Res(w, "validation", <<>>, FALSE)
       ELSE IF base # NoBase /\ ValidateBranchName(base) # ""
            THEN Res(w, "validation", <<>>, FALSE)
       ELSE Asked(BranchExists(w, At(F, "New.BranchExists"), branch))

\* Service.New
New(w, F, branch, base, inside, hooks, cmd) ==
    LET b == IF base = NoBase THEN DefaultBranch ELSE base
        path == WorktreePath(branch)
        Added(a) ==
            IF ~a.ok THEN Res(a.w, "adapter", <<>>, FALSE)
            ELSE NewTail(a.w, F, branch, path, TRUE, TRUE, inside, hooks, cmd)
        BaseChecked(rb) ==
            IF rb.err # "" THEN Res(rb.w, rb.err, <<>>, FALSE)
            ELSE Added(addWorktreeNewBranch(rb.w, F, path, branch, b))
        Ensured(e) ==
            IF ~e.ok THEN Res(e.w, "adapter", <<>>, FALSE)
            ELSE NewTail(e.w, F, branch, e.path, e.created, FALSE, inside, hooks, cmd)
        Asked(q) ==
            IF ~q.ok THEN Res(q.w, "adapter", <<>>, FALSE)
            ELSE IF q.val /\ base # NoBase THEN Res(q.w, "base-for-existing", <<>>, FALSE)
            ELSE IF q.val THEN Ensured(ensureWorktree(q.w, F, branch))
            ELSE BaseChecked(requireBranchExists(
                     q.w, At(F, "requireBranchExists.BranchExists"), b))
    IN IF ValidateBranchName(branch) # "" THEN Res(w, "validation", <<>>, FALSE)
       ELSE IF base # NoBase /\ ValidateBranchName(base) # ""
            THEN Res(w, "validation", <<>>, FALSE)
       ELSE Asked(BranchExists(w, At(F, "New.BranchExists"), branch))

-----------------------------------------------------------------------------
(* Switch *)

\* a Switch that removes the worktree it created when the file copy fails
SwitchRollsBackOnCopy(w, F, branch, inside, hooks, cmd) ==
    LET Ensured(t, e) ==
            IF ~t.ok THEN Res(t.w, "adapter", <<>>, FALSE)
            ELSE finalizeOperation(t.w, F, branch, e.path, e.created, inside)
        Copied(cp, e) ==
            IF ~cp.ok
            THEN Res(RemoveWorktree(cp.w, At(F, "Switch.RemoveWorktree"), e.path).w,
                     "adapter", <<>>, FALSE)
            ELSE Ensured(ensureTmux(cp.w, F, branch, e.path,
                                    buildInitCmd(e.created, hooks), cmd), e)
        Found(e) ==
            IF ~e.ok THEN Res(e.w, "adapter", <<>>, FALSE)
            ELSE Copied(IF e.created
                        THEN copyFiles(e.w, At(F, "Switch.copyFiles"), e.path)
                        ELSE R(e.w, TRUE), e)
        Checked(rb) ==
            IF rb.err # "" THEN Res(rb.w, rb.err, <<>>, FALSE)
            ELSE Found(ensureWorktree(rb.w, F, branch))
    IN IF ValidateBranchName(branch) # "" THEN Res(w, "validation", <<>>, FALSE)
       ELSE Checked(requireBranchExists(
                w, At(F, "requireBranchExists.BranchExists"), branch))

\* Service.Switch: no rollback on any path
Switch(w, F, branch, inside, hooks, cmd) ==
    LET Ensured(t, e) ==
            IF ~t.ok THEN Res(t.w, "adapter", <<>>, FALSE)
            ELSE finalizeOperation(t.w, F, branch, e.path, e.created, inside)
        Copied(cp, e) ==
            IF ~cp.ok THEN Res(cp.w, "adapter", <<>>, FALSE)
            ELSE Ensured(ensureTmux(cp.w, F, branch, e.path,
                                    buildInitCmd(e.created, hooks), cmd), e)
        Found(e) ==
            IF ~e.ok THEN Res(e.w, "adapter", <<>>, FALSE)
            ELSE Copied(IF e.created
                        THEN copyFiles(e.w, At(F, "Switch.copyFiles"), e.path)
                        ELSE R(e.w, TRUE), e)
        Checked(rb) ==
            IF rb.err # "" THEN Res(rb.w, rb.err, <<>>, FALSE)
            ELSE Found(ensureWorktree(rb.w, F, branch))
    IN IF ValidateBranchName(branch) # "" THEN Res(w, "validation", <<>>, FALSE)
       ELSE Checked(requireBranchExists(
                w, At(F, "requireBranchExists.BranchExists"), branch))

-----------------------------------------------------------------------------
(* Rollback stack *)

Undo(label, a, b) == [label |-> label, a |-> a, b |-> b]

\* newRollback: armed, no actions
newRollback == [actions |-> <<>>, armed |-> TRUE]

\* rollback.add
add(rb, undo) == [rb EXCEPT !.actions = Append(@, undo)]

\* rollback.disarm
disarm(rb) == [rb EXCEPT !.armed = FALSE]

\* one registered closure: bestEffort(label + " rollback", fn())
RunUndo(w, F, undo) ==
    RenameBranch(w, At(F, "rollback.RenameBranch"), undo.a, undo.b).w

RECURSIVE Replay(_, _, _, _)
Replay(w, F, actions, i) ==
    IF i = 0 THEN w ELSE Replay(RunUndo(w, F, actions[i]), F, actions, i - 1)

\* an execute that does not look at armed
executeDisarmedToo(w, F, rb) ==
    Replay(w, F, rb.actions, Len(rb.actions))

\* rollback.execute: replay in reverse if still armed
execute(w, F, rb) ==
    IF ~rb.armed THEN w ELSE Replay(w, F, rb.actions, Len(rb.actions))

-----------------------------------------------------------------------------
(* Rename *)

\* a move that leaves the directory at the new path when the repair fails
moveWorktreeNoMoveBack(w, F, new, oldPath) ==
    LET newPath == WorktreePath(new)
        Repaired(rp) ==
            IF ~rp.ok THEN Res(rp.w, "adapter", <<>>, FALSE)
            ELSE Res(cleanWorktreeParent(rp.w, F, oldPath), "", newPath, FALSE)
        Moved(mv) ==
            IF ~mv.ok THEN Res(mv.w, "adapter", <<>>, FALSE)
            ELSE Repaired(RepairWorktrees(mv.w, At(F, "moveWorktree.RepairWorktrees")))
        Made(d) ==
            IF ~d.ok THEN Res(d.w, "adapter", <<>>, FALSE)
            ELSE Moved(osRename(d.w, At(F, "moveWorktree.Rename"), oldPath, newPath))
    IN Made(ensureParentDir(w, At(F, "moveWorktree.MkdirAll"), newPath))

\* moveWorktree: move the directory to the canonical path of new, then repair
moveWorktree(w, F, new, oldPath) ==
    LET newPath == WorktreePath(new)
        Repaired(rp) ==
            IF ~rp.ok
            THEN Res(osRename(rp.w, At(F, "moveWorktree.RenameBack"), newPath, oldPath).w,
                     "adapter", <<>>, FALSE)
            ELSE Res(cleanWorktreeParent(rp.w, F, oldPath), "", newPath, FALSE)
        Moved(mv) ==
            IF ~mv.ok THEN Res(mv.w, "adapter", <<>>, FALSE)
            ELSE Repaired(RepairWorktrees(mv.w, At(F, "moveWorktree.RepairWorktrees")))
        Made(d) ==
            IF ~d.ok THEN Res(d.w, "adapter", <<>>, FALSE)
            ELSE Moved(osRename(d.w, At(F, "moveWorktree.Rename"), oldPath, newPath))
    IN Made(ensureParentDir(w, At(F, "moveWorktree.MkdirAll"), newPath))

\* a renameWorktree that looks the worktree up under the old name
renameWorktreeSearchesOld(w, F, old, new) ==
    LET Listed(l) ==
            LET i == findWorktree(l.val, old)
            IN IF ~l.ok THEN Res(l.w, "adapter", <<>>, FALSE)
               ELSE IF i # 0 THEN moveWorktree(l.w, F, new, l.val[i].path)
               ELSE findOrCreateWorktree(l.w, F, new)
    IN Listed(ListWorktrees(w, At(F, "renameWorktree.ListWorktrees")))

\* renameWorktree: the worktree is looked up under the new name
renameWorktree(w, F, old, new) ==
    LET Listed(l) ==
            LET i == findWorktree(l.val, new)
            IN IF ~l.ok THEN Res(l.w, "adapter", <<>>, FALSE)
               ELSE IF i # 0 THEN moveWorktree(l.w, F, new, l.val[i].path)
               ELSE findOrCreateWorktree(l.w, F, new)
    IN Listed(ListWorktrees(w, At(F, "renameWorktree.ListWorktrees")))

\* renameTmuxWindow: best-effort, returns nothing
renameTmuxWindow(w, F, old, new, wtPath, initCmd, cmd) ==
    LET Listed(l) ==
            IF l.nil THEN l.w
            ELSE IF findWindow(l.val, old) # 0
                 THEN sendCd(RenameWindow(l.w, At(F, "renameTmuxWindow.RenameWindow"),
                                          old, new).w,
                             F, new, wtPath, cmd)
            ELSE NewWindow(l.w, At(F, "renameTmuxWindow.NewWindow"), new, wtPath, initCmd).w
    IN Listed(listWindowsSafe(w, F))

\* a Rename body that returns the error of the reconnect
RenameBodyConnectFatal(w, F, old, new, inside, hooks, cmd) ==
    LET Connected(cn, wt) ==
            IF ~cn.ok THEN [res |-> Res(cn.w, "adapter", <<>>, FALSE), disarmed |-> FALSE]
            ELSE [res |-> Res(cn.w, "", wt.path, wt.created), disarmed |-> TRUE]
        Copied(cp, wt) ==
            IF ~cp.ok THEN [res |-> Res(cp.w, "adapter", <<>>, FALSE), disarmed |-> FALSE]
            ELSE Connected(connect(renameTmuxWindow(cp.w, F, old, new, wt.path,
                                                    buildInitCmd(wt.created, hooks), cmd),
                                   F, new, inside), wt)
        Moved(wt) ==
            IF ~wt.ok THEN [res |-> Res(wt.w, "adapter", <<>>, FALSE), disarmed |-> FALSE]
            ELSE Copied(IF wt.created
                        THEN copyFiles(wt.w, At(F, "Rename.copyFiles"), wt.path)
                        ELSE R(wt.w, TRUE), wt)
    IN Moved(renameWorktree(w, F, old, new))

\* the part of Rename that runs under the deferred rb.execute()
RenameBody(w, F, old, new, inside, hooks, cmd) ==
    LET Connected(cn, wt) ==
            [res |-> Res(cn.w, "", wt.path, wt.created), disarmed |-> TRUE]
        Copied(cp, wt) ==
            IF ~cp.ok THEN [res |-> Res(cp.w, "adapter", <<>>, FALSE), disarmed |-> FALSE]
            ELSE Connected(connect(renameTmuxWindow(cp.w, F, old, new, wt.path,
                                                    buildInitCmd(wt.created, hooks), cmd),
                                   F, new, inside), wt)
        Moved(wt) ==
            IF ~wt.ok THEN [res |-> Res(wt.w, "adapter", <<>>, FALSE), disarmed |-> FALSE]
            ELSE Copied(IF wt.created
                        THEN copyFiles(wt.w, At(F, "Rename.copyFiles"), wt.path)
                        ELSE R(wt.w, TRUE), wt)
    IN Moved(renameWorktree(w, F, old, new))

\* Service.Rename
Rename(w, F, old, new, inside, hooks, cmd) ==
    LET rb0 == add(newRollback, Undo("RenameBranch", new, old))
        Deferred(body) ==
            [body.res EXCEPT !.w = execute(body.res.w, F,
                                           IF body.disarmed THEN disarm(rb0) ELSE rb0)]
        Renamed(rn) ==
            IF ~rn.ok THEN Res(rn.w, "adapter", <<>>, FALSE)
            ELSE Deferred(RenameBody(rn.w, F, old, new, inside, hooks, cmd))
        NewChecked(r2) ==
            IF r2.err # "" THEN Res(r2.w, r2.err, <<>>, FALSE)
            ELSE Renamed(RenameBranch(r2.w, At(F, "Rename.RenameBranch"), old, new))
        OldChecked(r1) ==
            IF r1.err # "" THEN Res(r1.w, r1.err, <<>>, FALSE)
            ELSE NewChecked(requireBranchNotExists(
                     r1.w, At(F, "requireBranchNotExists.BranchExists"), new))
    IN IF requireNotDefaultBranch(old) # "" THEN Res(w, "default", <<>>, FALSE)
       ELSE OldChecked(requireBranchExists(
                w, At(F, "requireBranchExists.BranchExists"), old))

-----------------------------------------------------------------------------
(* Remove *)

NoCheck == [Branch |-> <<>>, HasBranch |-> FALSE, HasWorktree |-> FALSE,
            WorktreePath |-> <<>>, HasWindow |-> FALSE, IsActive |-> FALSE,
            HasUncommitted |-> FALSE, IsUnmerged |-> FALSE]

\* a HasResources that looks at the branch alone
HasResourcesBranchOnly(c) == c.HasBranch

\* RemoveCheck.HasResources
HasResources(c) == c.HasBranch \/ c.HasWorktree \/ c.HasWindow

\* git -C path status --porcelain: (dirty, err); fails where no worktree is
HasUncommittedChanges(w, inj, path) ==
    LET ok == ~inj.fail /\ \E i \in 1..Len(w.wt) : w.wt[i].dir = path
    IN [w |-> LogI(inj, w, "HasUncommittedChanges", <<path>>, ok), ok |-> ok,
        val |-> ok /\ \E i \in 1..Len(w.wt) : w.wt[i].dir = path /\ w.wt[i].dirty]

\* git merge-base --is-ancestor branch base: (merged, err), base the default branch
IsMerged(w, inj, branch, base) ==
    LET ok == ~inj.fail /\ branch \in w.br /\ base \in w.br
    IN [w |-> LogI(inj, w, "IsMerged", <<branch, base>>, ok), ok |-> ok,
        val |-> ok /\ branch \notin w.unm]

\* a PrepareRemove that looks for the window only while the branch exists
PrepareRemoveWindowOfBranch(w, F, branch) ==
    LET Compared(m, u, c0) ==
            [w |-> m.w, err |-> "",
             check |-> [c0 EXCEPT !.HasUncommitted = u.val,
                                  !.IsUnmerged = IF c0.HasBranch THEN ~m.val ELSE FALSE]]
        Probed(u, c0) ==
            Compared(IF c0.HasBranch
                     THEN IsMerged(u.w, At(F, "PrepareRemove.IsMerged"),
                                   branch, DefaultBranch)
                     ELSE [w |-> u.w, val |-> TRUE], u, c0)
        Collected(c0, lw) ==
            IF ~HasResources(c0) THEN [w |-> lw.w, err |-> "notfound", check |-> NoCheck]
            ELSE Probed(IF c0.HasBranch /\ c0.HasWorktree
                        THEN HasUncommittedChanges(
                                 lw.w, At(F, "PrepareRemove.HasUncommittedChanges"),
                                 c0.WorktreePath)
                        ELSE [w |-> lw.w, val |-> FALSE], c0)
        Windows(lw, l, q) ==
            LET i == findWorktree(l.val, branch)
                k == IF q.val THEN findWindow(lw.val, branch) ELSE 0
            IN Collected([NoCheck EXCEPT
                              !.Branch = branch,
                              !.HasBranch = q.val,
                              !.HasWorktree = (i # 0),
                              !.WorktreePath = IF i # 0 THEN l.val[i].path ELSE <<>>,
                              !.HasWindow = (k # 0),
                              !.IsActive = (k # 0 /\ lw.val[k].active)], lw)
        Listed(l, q) ==
            IF ~l.ok THEN [w |-> l.w, err |-> "adapter", check |-> NoCheck]
            ELSE Windows(listWindowsSafe(l.w, F), l, q)
        Asked(q) ==
            IF ~q.ok THEN [w |-> q.w, err |-> "adapter", check |-> NoCheck]
            ELSE Listed(ListWorktrees(q.w, At(F, "PrepareRemove.ListWorktrees")), q)
    IN IF ValidateBranchName(branch) # "" THEN [w |-> w, err |-> "validation", check |-> NoCheck]
       ELSE IF requireNotDefaultBranch(branch) # ""
            THEN [w |-> w, err |-> "default", check |-> NoCheck]
       ELSE Asked(BranchExists(w, At(F, "PrepareRemove.BranchExists"), branch))

\* a PrepareRemove that takes a failed merge probe for "merged"
PrepareRemoveMergedOnFailure(w, F, branch) ==
    LET Compared(m, u, c0) ==
            [w |-> m.w, err |-> "",
             check |-> [c0 EXCEPT !.HasUncommitted = u.val,
                                  !.IsUnmerged = IF c0.HasBranch THEN m.ok /\ ~m.val
                                               ELSE FALSE]]
        Probed(u, c0) ==
            Compared(IF c0.HasBranch
                     THEN IsMerged(u.w, At(F, "PrepareRemove.IsMerged"),
                                   branch, DefaultBranch)
                     ELSE [w |-> u.w, val |-> TRUE], u, c0)
        Collected(c0, lw) ==
            IF ~HasResources(c0) THEN [w |-> lw.w, err |-> "notfound", check |-> NoCheck]
            ELSE Probed(IF c0.HasBranch /\ c0.HasWorktree
                        THEN HasUncommittedChanges(
                                 lw.w, At(F, "PrepareRemove.HasUncommittedChanges"),
                                 c0.WorktreePath)
                        ELSE [w |-> lw.w, val |-> FALSE], c0)
        Windows(lw, l, q) ==
            LET i == findWorktree(l.val, branch)
                k == findWindow(lw.val, branch)
            IN Collected([NoCheck EXCEPT
                              !.Branch = branch,
                              !.HasBranch = q.val,
                              !.HasWorktree = (i # 0),
                              !.WorktreePath = IF i # 0 THEN l.val[i].path ELSE <<>>,
                              !.HasWindow = (k # 0),
                              !.IsActive = (k # 0 /\ lw.val[k].active)], lw)
        Listed(l, q) ==
            IF ~l.ok THEN [w |-> l.w, err |-> "adapter", check |-> NoCheck]
            ELSE Windows(listWindowsSafe(l.w, F), l, q)
        Asked(q) ==
            IF ~q.ok THEN [w |-> q.w, err |-> "adapter", check |-> NoCheck]
            ELSE Listed(ListWorktrees(q.w, At(F, "PrepareRemove.ListWorktrees")), q)
    IN IF ValidateBranchName(branch) # "" THEN [w |-> w, err |-> "validation", check |-> NoCheck]
       ELSE IF requireNotDefaultBranch(branch) # ""
            THEN [w |-> w, err |-> "default", check |-> NoCheck]
       ELSE Asked(BranchExists(w, At(F, "PrepareRemove.BranchExists"), branch))

\* Service.PrepareRemove: (RemoveCheck, error)
PrepareRemove(w, F, branch) ==
    LET Compared(m, u, c0) ==
            [w |-> m.w, err |-> "",
             check |-> [c0 EXCEPT !.HasUncommitted = u.val,
                                  !.IsUnmerged = IF c0.HasBranch THEN ~m.val ELSE FALSE]]
        Probed(u, c0) ==
            Compared(IF c0.HasBranch
                     THEN IsMerged(u.w, At(F, "PrepareRemove.IsMerged"),
                                   branch, DefaultBranch)
                     ELSE [w |-> u.w, val |-> TRUE], u, c0)
        Collected(c0, lw) ==
            IF ~HasResources(c0) THEN [w |-> lw.w, err |-> "notfound", check |-> NoCheck]
            ELSE Probed(IF c0.HasBranch /\ c0.HasWorktree
                        THEN HasUncommittedChanges(
                                 lw.w, At(F, "PrepareRemove.HasUncommittedChanges"),
                                 c0.WorktreePath)
                        ELSE [w |-> lw.w, val |-> FALSE], c0)
        Windows(lw, l, q) ==
            LET i == findWorktree(l.val, branch)
                k == findWindow(lw.val, branch)
            IN Collected([NoCheck EXCEPT
                              !.Branch = branch,
                              !.HasBranch = q.val,
                              !.HasWorktree = (i # 0),
                              !.WorktreePath = IF i # 0 THEN l.val[i].path ELSE <<>>,
                              !.HasWindow = (k # 0),
                              !.IsActive = (k # 0 /\ lw.val[k].active)], lw)
        Listed(l, q) ==
            IF ~l.ok THEN [w |-> l.w, err |-> "adapter", check |-> NoCheck]
            ELSE Windows(listWindowsSafe(l.w, F), l, q)
        Asked(q) ==
            IF ~q.ok THEN [w |-> q.w, err |-> "adapter", check |-> NoCheck]
            ELSE Listed(ListWorktrees(q.w, At(F, "PrepareRemove.ListWorktrees")), q)
    IN IF ValidateBranchName(branch) # "" THEN [w |-> w, err |-> "validation", check |-> NoCheck]
       ELSE IF requireNotDefaultBranch(branch) # ""
            THEN [w |-> w, err |-> "default", check |-> NoCheck]
       ELSE Asked(BranchExists(w, At(F, "PrepareRemove.BranchExists"), branch))

NoResult == [BranchDeleted |-> FALSE, WorktreeRemoved |-> FALSE,
             WindowKilled |-> FALSE, SessionKilled |-> FALSE]

\* ExecuteRemove, last step: best-effort kill of a session left without windows
KillEmptySession(w, F, result) ==
    LET Killed(ks) ==
            [w |-> ks.w, ok |-> TRUE,
             result |-> [result EXCEPT !.SessionKilled = ks.ok]]
        Listed(l) ==
            IF Len(l.val) # 0 THEN [w |-> l.w, ok |-> TRUE, result |-> result]
            ELSE Killed(KillSession(l.w, At(F, "ExecuteRemove.KillSession")))
        Asked(h) ==
            IF ~h.val THEN [w |-> h.w, ok |-> TRUE, result |-> result]
            ELSE Listed(ListWindows(h.w, At(F, "ExecuteRemove.ListWindows")))
    IN Asked(HasSession(w, At(F, "ExecuteRemove.HasSession")))

\* a removal that kills the window before the git operations
RemoveStepsWindowFirst(w, F, c) ==
    LET result == [NoResult EXCEPT !.WorktreeRemoved = c.HasWorktree,
                                   !.BranchDeleted = c.HasBranch,
                                   !.WindowKilled = c.HasWindow]
        Deleted(db) ==
            IF ~db.ok THEN [w |-> db.w, ok |-> FALSE, result |-> NoResult]
            ELSE KillEmptySession(db.w, F, result)
        Removed(rw) ==
            IF ~rw.ok THEN [w |-> rw.w, ok |-> FALSE, result |-> NoResult]
            ELSE Deleted(IF c.HasBranch
                         THEN DeleteBranchFrom(rw.w, At(F, "ExecuteRemove.DeleteBranchFrom"),
                                               RepoRoot, c.Branch)
                         ELSE R(rw.w, TRUE))
        Killed(kw) ==
            IF ~kw.ok THEN [w |-> kw.w, ok |-> FALSE, result |-> NoResult]
            ELSE Removed(IF c.HasWorktree
                         THEN RemoveWorktree(kw.w, At(F, "ExecuteRemove.RemoveWorktree"),
                                             c.WorktreePath)
                         ELSE R(kw.w, TRUE))
    IN Killed(IF c.HasWindow
              THEN KillWindow(w, At(F, "ExecuteRemove.KillWindow"), c.Branch)
              ELSE R(w, TRUE))

\* ExecuteRemove, removal steps: worktree, branch, window - in this order
RemoveSteps(w, F, c) ==
    LET result == [NoResult EXCEPT !.WorktreeRemoved = c.HasWorktree,
                                   !.BranchDeleted = c.HasBranch,
                                   !.WindowKilled = c.HasWindow]
        Killed(kw) ==
            IF ~kw.ok THEN [w |-> kw.w, ok |-> FALSE, result |-> NoResult]
            ELSE KillEmptySession(kw.w, F, result)
        Deleted(db) ==
            IF ~db.ok THEN [w |-> db.w, ok |-> FALSE, result |-> NoResult]
            ELSE Killed(IF c.HasWindow
                        THEN KillWindow(db.w, At(F, "ExecuteRemove.KillWindow"), c.Branch)
                        ELSE R(db.w, TRUE))
        Cleaned(w1) ==
            Deleted(IF c.HasBranch
                    THEN DeleteBranchFrom(w1, At(F, "ExecuteRemove.DeleteBranchFrom"),
                                          RepoRoot, c.Branch)
                    ELSE R(w1, TRUE))
        Removed(rw) ==
            IF ~rw.ok THEN [w |-> rw.w, ok |-> FALSE, result |-> NoResult]
            ELSE Cleaned(IF c.HasWorktree
                         THEN cleanWorktreeParent(rw.w, F, c.WorktreePath)
                         ELSE rw.w)
    IN Removed(IF c.HasWorktree
               THEN RemoveWorktree(w, At(F, "ExecuteRemove.RemoveWorktree"), c.WorktreePath)
               ELSE R(w, TRUE))

\* an ExecuteRemove that probes the branch again before it acts
ExecuteRemoveRequeries(w, F, c, inside, cmd) ==
    LET Ensured(t, c1) ==
            IF ~t.ok THEN [w |-> t.w, ok |-> FALSE, result |-> NoResult]
            ELSE RemoveSteps(IF inside
                             THEN SwitchClient(t.w, At(F, "ExecuteRemove.SwitchClient"),
                                               DefaultBranch).w
                             ELSE t.w, F, c1)
        Asked(q, c1) ==
            IF c.IsActive
            THEN Ensured(ensureTmux(q.w, F, DefaultBranch, RepoRoot, "", cmd), c1)
            ELSE RemoveSteps(q.w, F, c1)
        Probed(q) == Asked(q, [c EXCEPT !.HasBranch = q.val])
    IN Probed(BranchExists(w, At(F, "ExecuteRemove.BranchExists"), c.Branch))

\* an ExecuteRemove that goes on to the removal when ensureTmux failed
ExecuteRemoveIgnoresEnsure(w, F, c, inside, cmd) ==
    LET Ensured(t) ==
            RemoveSteps(IF inside
                        THEN SwitchClient(t.w, At(F, "ExecuteRemove.SwitchClient"),
                                          DefaultBranch).w
                        ELSE t.w, F, c)
    IN IF c.IsActive
       THEN Ensured(ensureTmux(w, F, DefaultBranch, RepoRoot, "", cmd))
       ELSE RemoveSteps(w, F, c)

\* Service.ExecuteRemove: acts on the RemoveCheck it is handed
ExecuteRemove(w, F, c, inside, cmd) ==
    LET Ensured(t) ==
            IF ~t.ok THEN [w |-> t.w, ok |-> FALSE, result |-> NoResult]
            ELSE RemoveSteps(IF inside
                             THEN SwitchClient(t.w, At(F, "ExecuteRemove.SwitchClient"),
                                               DefaultBranch).w
                             ELSE t.w, F, c)
    IN IF c.IsActive
       THEN Ensured(ensureTmux(w, F, DefaultBranch, RepoRoot, "", cmd))
       ELSE RemoveSteps(w, F, c)

-----------------------------------------------------------------------------
(* CollectState: the joined view of the two stores shown by hashi list.    *)

StatusOK == 0
StatusWorktreeMissing == 1
StatusOrphanedWindow == 2
StatusOrphanedWorktree == 3

\* the serialized names, by Status; a text is a sequence of pieces, a piece
\* being one character or a run of characters that is never split
statusTable ==
    <<<<"ok">>, <<"worktree_missing">>, <<"orphaned_window">>,
      <<"orphaned_worktree">>>>

Quote == "\""
Backslash == "\\"

\* Status.String: the name of the table, "unknown" past its end
String(st) ==
    IF st < Len(statusTable) THEN statusTable[st + 1] ELSE <<"unknown">>

\* Status.MarshalJSON: %q of the name, which holds nothing to escape
MarshalJSON(st) == <<Quote>> \o String(st) \o <<Quote>>

RECURSIVE TrimLeft(_, _)
TrimLeft(text, c) ==
    IF text # <<>> /\ Head(text) = c THEN TrimLeft(Tail(text), c) ELSE text

RECURSIVE TrimRight(_, _)
TrimRight(text, c) ==
    IF text # <<>> /\ text[Len(text)] = c
    THEN TrimRight(SubSeq(text, 1, Len(text) - 1), c) ELSE text

\* strings.Trim(text, c): every leading and trailing c is removed
Trim(text, c) == TrimRight(TrimLeft(text, c), c)

\* an UnmarshalJSON that stores the first Status when the name is unknown
UnmarshalJSONDefaults(st, data) ==
    LET hits == {i \in 1..Len(statusTable) : statusTable[i] = Trim(data, Quote)}
    IN IF hits = {} THEN [st |-> StatusOK, err |-> "unknown status"]
       ELSE [st |-> (CHOOSE i \in hits : \A j \in hits : i <= j) - 1, err |-> ""]

\* Status.UnmarshalJSON on target st: (the target afterwards, the error)
UnmarshalJSON(st, data) ==
    LET hits == {i \in 1..Len(statusTable) : statusTable[i] = Trim(data, Quote)}
    IN IF hits = {} THEN [st |-> st, err |-> "unknown status"]
       ELSE [st |-> (CHOOSE i \in hits : \A j \in hits : i <= j) - 1, err |-> ""]

\* a State; the zero values are "" (<<>>) and false
State(branch, worktree, window, active, isDefault, status) ==
    [Branch |-> branch, Worktree |-> worktree, Window |-> window,
     Active |-> active, IsDefault |-> isDefault, Status |-> status]

\* a classifyWorktreeStatus that has no case for the main worktree
classifyWorktreeStatusNoMain(wt, branchSet) ==
    IF wt.branch \notin branchSet THEN StatusOrphanedWorktree ELSE StatusOK

classifyWorktreeStatus(wt, branchSet) ==
    IF wt.isMain THEN StatusOK
    ELSE IF wt.branch \notin branchSet THEN StatusOrphanedWorktree
    ELSE StatusOK

\* a classifyWindowOnlyStatus that takes a window of no branch for a worktree
classifyWindowOnlyStatusAsWorktree(name, branchSet) ==
    IF name \in branchSet THEN StatusWorktreeMissing ELSE StatusOrphanedWorktree

classifyWindowOnlyStatus(name, branchSet) ==
    IF name \in branchSet THEN StatusWorktreeMissing ELSE StatusOrphanedWindow

\* toMap(windows, name)[name]: a later window replaces an earlier one of the
\* same name; index of the window the map holds for name, 0 when it has none
toMap(wins, name) ==
    LET hits == {i \in 1..Len(wins) : wins[i].name = name}
    IN IF hits = {} THEN 0 ELSE CHOOSE i \in hits : \A j \in hits : j <= i

\* a first loop that does not skip the detached worktrees
WorktreeStatesKeepsDetached(wts, wins, branchSet) ==
    LET Of(wt, k) == State(wt.branch, wt.path, k # 0, k # 0 /\ wins[k].active,
                           wt.branch = DefaultBranch,
                           classifyWorktreeStatus(wt, branchSet))
    IN [i \in 1..Len(wts) |-> Of(wts[i], toMap(wins, wts[i].branch))]

\* first loop of CollectState: one State per worktree that is not detached
WorktreeStates(wts, wins, branchSet) ==
    LET kept == SelectSeq(wts, LAMBDA wt : ~wt.detached)
        Of(wt, k) == State(wt.branch, wt.path, k # 0, k # 0 /\ wins[k].active,
                           wt.branch = DefaultBranch,
                           classifyWorktreeStatus(wt, branchSet))
    IN [i \in 1..Len(kept) |-> Of(kept[i], toMap(wins, kept[i].branch))]

\* second loop of CollectState: one State per window whose name was not seen
WindowStates(wts, wins, branchSet) ==
    LET seen == {wts[i].branch : i \in {j \in 1..Len(wts) : ~wts[j].detached}}
        rest == SelectSeq(wins, LAMBDA x : x.name \notin seen)
    IN [i \in 1..Len(rest) |->
           State(rest[i].name, <<>>, TRUE, rest[i].active, FALSE,
                 classifyWindowOnlyStatus(rest[i].name, branchSet))]

CollectState(w, F) ==
    LET Out(w2, err, val) == [w |-> w2, err |-> err, val |-> val]
        Joined(wts, brs, l) ==
            Out(l.w, "", WorktreeStates(wts, l.val, brs)
                         \o WindowStates(wts, l.val, brs))
        Branched(wts, b) ==
            IF ~b.ok THEN Out(b.w, "adapter", <<>>)
            ELSE Joined(wts, b.val, listWindowsSafe(b.w, F))
        Listed(l) ==
            IF ~l.ok THEN Out(l.w, "adapter", <<>>)
            ELSE Branched(l.val, ListBranches(l.w, At(F, "CollectState.ListBranches")))
    IN Listed(ListWorktrees(w, At(F, "CollectState.ListWorktrees")))

-----------------------------------------------------------------------------
(* The state machine: one run of the CLI against the two stores.           *)
(* hashi new / switch / rename issue one engine call and exit; hashi       *)
(* switch may be run once more after it succeeded.  hashi remove calls     *)
(* PrepareRemove, asks for confirmation, then ExecuteRemove and goes on to *)
(* the next branch; it ends at the first PrepareRemove error, and is run   *)
(* again after a failed ExecuteRemove.                                     *)

\* number of PrepareRemove calls in one behaviour
MaxRemoves == 2
\* number of changes made to the stores by somebody else while a confirmation waits
MaxExt == 1

\* hooks: post_new hooks are configured for the call; again: the call follows
\* a successful Switch in the same behaviour; val: the value the call returned
NoOp == [op |-> "none", a |-> <<>>, b |-> <<>>, err |-> "", log |-> <<>>,
         path |-> <<>>, created |-> FALSE, hooks |-> FALSE, again |-> FALSE,
         chk |-> NoCheck, val |-> <<>>, pane |-> ""]

\* what the pane inspection of an operation reported, "" when none answered
paneReport(log, cmd) ==
    IF \E i \in 1..Len(log) : log[i].call = "PaneCurrentCommand" /\ log[i].ok
    THEN cmd ELSE ""

\* no call of the log failed
AllOk(log) == \A i \in 1..Len(log) : log[i].ok

Cur == World(branches, unmerged, worktrees, session, windows)

\* the sets of at most k call sites injected to fail in which every site is
\* reached: a site is added to a set only if the run under that set reaches it
Plans(Reached(_), k) ==
    LET P[i \in 0..k] ==
            IF i = 0 THEN {{}}
            ELSE LET prev == P[i - 1]
                 IN prev \cup UNION {{F \cup {s} : s \in Reached(F) \ {""}} : F \in prev}
    IN P[IF k < 0 THEN 0 ELSE k]

\* what is left of MaxFail in this behaviour
FailBudget == MaxFail - steps.fails

\* the stores after the call, and the record of the call
Commit(w, rec, st, F) ==
    /\ F \subseteq w.reached
    /\ branches' = w.br
    /\ unmerged' = w.unm
    /\ worktrees' = w.wt
    /\ session' = w.sess
    /\ windows' = w.win
    /\ last' = [rec EXCEPT !.log = w.log]
    /\ steps' = [st EXCEPT !.fails = @ + Cardinality(F)]

MainWorktree(b) == Worktree(RepoRoot, b, TRUE)

RECURSIVE LinkedWorktrees(_)
\* linked worktrees at their canonical paths, in the order git lists them
LinkedWorktrees(names) ==
    IF names = <<>> THEN <<>>
    ELSE <<Worktree(WorktreePath(Head(names)), Head(names), FALSE)>>
         \o LinkedWorktrees(Tail(names))

\* dirty: the branches whose worktree has uncommitted changes
Soiled(wts, dirty) ==
    [i \in 1..Len(wts) |-> [wts[i] EXCEPT !.dirty = (wts[i].branch \in dirty)]]

InitGit ==
    {[main |-> DefaultBranch, br |-> {DefaultBranch}, linked |-> <<>>,
      dirty |-> {}, unm |-> {}],
     [main |-> DefaultBranch, br |-> {DefaultBranch}, linked |-> <<NameA>>,
      dirty |-> {}, unm |-> {}],
     [main |-> DefaultBranch, br |-> {DefaultBranch, NameA}, linked |-> <<>>,
      dirty |-> {}, unm |-> {NameA}],
     [main |-> DefaultBranch, br |-> {DefaultBranch, NameA}, linked |-> <<NameA>>,
      dirty |-> {}, unm |-> {}],
     [main |-> DefaultBranch, br |-> {DefaultBranch, NameA}, linked |-> <<NameA>>,
      dirty |-> {NameA}, unm |-> {NameA}],
     [main |-> DefaultBranch, br |-> {DefaultBranch, NameA, NameB},
      linked |-> <<NameA, NameB>>, dirty |-> {NameA}, unm |-> {NameB}],
     [main |-> NameA, br |-> {DefaultBranch, NameA}, linked |-> <<>>,
      dirty |-> {}, unm |-> {}],
     [main |-> NameA, br |-> {NameA, NameB}, linked |-> <<NameB>>,
      dirty |-> {}, unm |-> {}]}

InitWindows ==
    { <<>>,
      <<Window(DefaultBranch, TRUE)>>,
      <<Window(NameA, TRUE)>>,
      <<Window(DefaultBranch, TRUE), Window(NameA, FALSE)>>,
      <<Window(DefaultBranch, FALSE), Window(NameA, TRUE)>>,
      <<Window(NameA, TRUE), Window(NameB, FALSE)>> }

Init ==
    /\ \E g \in InitGit :
          /\ branches = g.br
          /\ unmerged = g.unm
          /\ worktrees = Soiled(<<MainWorktree(g.main)>> \o LinkedWorktrees(g.linked),
                                g.dirty)
    /\ windows \in InitWindows
    /\ session = (windows # <<>>)
    /\ check = NoCheck
    /\ stale = FALSE
    /\ last = NoOp
    /\ steps = [pc |-> "idle", removes |-> 0, ext |-> 0, fails |-> 0,
                failed |-> <<>>, prepOk |-> FALSE]

Bases == {NoBase, NameB, BadName}

\* hashi new <branch> [base]
DoNew ==
    /\ steps.pc = "idle" /\ steps.removes = 0
    /\ \E branch \in ArgNames, base \in Bases,
          inside \in BOOLEAN, hooks \in BOOLEAN, cmd \in {ShellCmd, OtherCmd} :
       \E F \in Plans(LAMBDA G : New(Cur, G, branch, base, inside, hooks, cmd).w.reached,
                      FailBudget) :
       \E r \in {New(Cur, F, branch, base, inside, hooks, cmd)} :
          Commit(r.w, [NoOp EXCEPT !.op = "New", !.a = branch, !.b = base,
                                   !.err = r.err, !.path = r.path,
                                   !.created = r.created, !.hooks = hooks,
                                   !.pane = paneReport(r.w.log, cmd)],
                     [steps EXCEPT !.pc = "done"], F)
    /\ UNCHANGED <<check, stale>>

\* hashi switch <branch>, and hashi switch once more after it succeeded
DoSwitch ==
    /\ \/ steps.pc = "idle" /\ steps.removes = 0
       \/ steps.pc = "switched"
    /\ \E branch \in ArgNames,
          inside \in BOOLEAN, hooks \in BOOLEAN, cmd \in {ShellCmd, OtherCmd} :
       \E F \in Plans(LAMBDA G : Switch(Cur, G, branch, inside, hooks, cmd).w.reached,
                      FailBudget) :
       \E r \in {Switch(Cur, F, branch, inside, hooks, cmd)} :
          Commit(r.w, [NoOp EXCEPT !.op = "Switch", !.a = branch,
                                   !.err = r.err, !.path = r.path,
                                   !.created = r.created, !.hooks = hooks,
                                   !.pane = paneReport(r.w.log, cmd),
                                   !.again = (steps.pc = "switched")],
                     [steps EXCEPT !.pc = IF r.err = "" /\ steps.pc = "idle"
                                          THEN "switched" ELSE "done"], F)
    /\ UNCHANGED <<check, stale>>

\* Service.Rename called with (old, new)
DoRename ==
    /\ steps.pc = "idle" /\ steps.removes = 0
    /\ \E old \in ArgNames, new \in ArgNames,
          inside \in BOOLEAN, hooks \in BOOLEAN, cmd \in {ShellCmd, OtherCmd} :
       \E F \in Plans(LAMBDA G : Rename(Cur, G, old, new, inside, hooks, cmd).w.reached,
                      FailBudget) :
       \E r \in {Rename(Cur, F, old, new, inside, hooks, cmd)} :
          Commit(r.w, [NoOp EXCEPT !.op = "Rename", !.a = old, !.b = new,
                                   !.err = r.err, !.path = r.path,
                                   !.created = r.created, !.hooks = hooks,
                                   !.pane = paneReport(r.w.log, cmd)],
                     [steps EXCEPT !.pc = "done"], F)
    /\ UNCHANGED <<check, stale>>

\* runRemove, first half of the loop body: PrepareRemove
DoPrepareRemove ==
    /\ steps.pc = "idle" /\ steps.removes < MaxRemoves
    /\ \E branch \in ArgNames :
       \E F \in Plans(LAMBDA G : PrepareRemove(Cur, G, branch).w.reached,
                      FailBudget) :
       \E r \in {PrepareRemove(Cur, F, branch)} :
          /\ Commit(r.w, [NoOp EXCEPT !.op = "PrepareRemove", !.a = branch,
                                      !.err = r.err, !.chk = r.check],
                    [steps EXCEPT !.pc = IF r.err = "" THEN "confirm" ELSE "done",
                                  !.removes = @ + 1,
                                  !.prepOk = AllOk(r.w.log)], F)
          /\ check' = r.check
    /\ stale' = FALSE

\* runRemove, second half: the confirmation was given (or -f), ExecuteRemove
DoExecuteRemove ==
    /\ steps.pc = "confirm"
    /\ \E inside \in (IF check.IsActive THEN BOOLEAN ELSE {FALSE}),
          cmd \in (IF check.IsActive THEN {ShellCmd, OtherCmd} ELSE {ShellCmd}) :
       \E F \in Plans(LAMBDA G : ExecuteRemove(Cur, G, check, inside, cmd).w.reached,
                      FailBudget) :
       \E r \in {ExecuteRemove(Cur, F, check, inside, cmd)} :
          Commit(r.w, [NoOp EXCEPT !.op = "ExecuteRemove", !.a = check.Branch,
                                   !.err = IF r.ok THEN "" ELSE "adapter",
                                   !.chk = check,
                                   !.pane = paneReport(r.w.log, cmd)],
                 [steps EXCEPT !.pc = "idle",
                               !.failed = IF r.ok THEN @ ELSE check.Branch], F)
    /\ check' = NoCheck
    /\ UNCHANGED stale

\* runRemove: the confirmation was declined, nothing is called for this branch
DoDecline ==
    /\ steps.pc = "confirm"
    /\ check' = NoCheck
    /\ last' = [NoOp EXCEPT !.op = "Decline", !.a = check.Branch]
    /\ steps' = [steps EXCEPT !.pc = "idle"]
    /\ UNCHANGED <<branches, unmerged, worktrees, session, windows, stale>>

\* while the prompt waits, somebody kills the window named after the branch
ExtKillWindow ==
    /\ steps.pc = "confirm" /\ steps.ext < MaxExt
    /\ Resolves(Cur, check.Branch)
    /\ \E w \in {KillWindow(Cur, NoInj, check.Branch).w} :
          windows' = w.win /\ session' = w.sess
    /\ stale' = TRUE
    /\ steps' = [steps EXCEPT !.ext = @ + 1]
    /\ UNCHANGED <<branches, unmerged, worktrees, check, last>>

\* while the prompt waits, somebody opens a window named after the branch
ExtNewWindow ==
    /\ steps.pc = "confirm" /\ steps.ext < MaxExt
    /\ session /\ findWindow(windows, check.Branch) = 0
    /\ windows' = NewWindow(Cur, NoInj, check.Branch, RepoRoot, "").w.win
    /\ stale' = TRUE
    /\ steps' = [steps EXCEPT !.ext = @ + 1]
    /\ UNCHANGED <<branches, unmerged, worktrees, session, check, last>>

\* while the prompt waits, somebody deletes the branch with git branch -D
ExtDeleteBranch ==
    /\ steps.pc = "confirm" /\ steps.ext < MaxExt
    /\ check.Branch \in branches /\ ~CheckedOut(worktrees, check.Branch)
    /\ branches' = branches \ {check.Branch}
    /\ unmerged' = unmerged \ {check.Branch}
    /\ stale' = TRUE
    /\ steps' = [steps EXCEPT !.ext = @ + 1]
    /\ UNCHANGED <<worktrees, session, windows, check, last>>

Next ==
    \/ DoNew
    \/ DoSwitch
    \/ DoRename
    \/ DoPrepareRemove
    \/ DoExecuteRemove
    \/ DoDecline
    \/ ExtKillWindow
    \/ ExtNewWindow
    \/ ExtDeleteBranch

Spec == Init /\ [][Next]_vars

-----------------------------------------------------------------------------
(* hashi remove [-f] <branch...>: one run of runRemove over its arguments. *)
(* args holds the arguments, rest those not yet processed, removed the     *)
(* branches whose ExecuteRemove returned success in this run.              *)

\* number of branches given to one hashi remove
MaxArgs == 2

\* validateBranchArgs lets only valid names through
RemoveArgs == SeqsUpTo(ValidNames, MaxArgs) \ {<<>>}

RemoveInit ==
    /\ \E g \in InitGit :
          /\ branches = g.br
          /\ unmerged = g.unm
          /\ worktrees = Soiled(<<MainWorktree(g.main)>> \o LinkedWorktrees(g.linked),
                                g.dirty)
    /\ windows \in InitWindows
    /\ session = (windows # <<>>)
    /\ check = NoCheck
    /\ stale = FALSE
    /\ last = NoOp
    /\ \E args \in RemoveArgs, force \in BOOLEAN :
          steps = [pc |-> "loop", removes |-> 0, ext |-> 0, fails |-> 0,
                   failed |-> <<>>, prepOk |-> FALSE,
                   args |-> args, rest |-> args, force |-> force,
                   removed |-> {}]

\* the loop goes on to the next argument, or returns nil after the last
Advance(st) ==
    [st EXCEPT !.rest = Tail(@),
               !.pc = IF Tail(st.rest) = <<>> THEN "finished" ELSE "loop"]

\* top of the loop body: PrepareRemove of the next argument
RunPrepareRemove ==
    /\ steps.pc = "loop"
    /\ \E F \in Plans(LAMBDA G : PrepareRemove(Cur, G, Head(steps.rest)).w.reached,
                      FailBudget) :
       \E r \in {PrepareRemove(Cur, F, Head(steps.rest))} :
          /\ Commit(r.w, [NoOp EXCEPT !.op = "PrepareRemove", !.a = Head(steps.rest),
                                      !.err = r.err, !.chk = r.check],
                    [steps EXCEPT !.pc = IF r.err # "" THEN "aborted"
                                         ELSE IF steps.force THEN "execute"
                                         ELSE "confirm",
                                  !.prepOk = AllOk(r.w.log)], F)
          /\ check' = r.check
    /\ stale' = FALSE

\* confirmPrompt answered with something else than y / yes, or stdin closed
RunDecline ==
    /\ steps.pc = "confirm"
    /\ \E answer \in {"n", "", "closed"} :
          last' = [NoOp EXCEPT !.op = "Decline", !.a = check.Branch, !.b = answer]
    /\ check' = NoCheck
    /\ steps' = Advance(steps)
    /\ UNCHANGED <<branches, unmerged, worktrees, session, windows, stale>>

\* a loop that goes on to the next argument after a failed ExecuteRemove
RunExecuteRemoveContinues ==
    /\ steps.pc \in {"confirm", "execute"}
    /\ \E inside \in (IF check.IsActive THEN BOOLEAN ELSE {FALSE}),
          cmd \in (IF check.IsActive THEN {ShellCmd, OtherCmd} ELSE {ShellCmd}) :
       \E F \in Plans(LAMBDA G : ExecuteRemove(Cur, G, check, inside, cmd).w.reached,
                      FailBudget) :
       \E r \in {ExecuteRemove(Cur, F, check, inside, cmd)} :
          Commit(r.w, [NoOp EXCEPT !.op = "ExecuteRemove", !.a = check.Branch,
                                   !.err = IF r.ok THEN "" ELSE "adapter",
                                   !.chk = check,
                                   !.pane = paneReport(r.w.log, cmd)],
                 IF r.ok THEN [Advance(steps) EXCEPT !.removed = @ \cup {check.Branch}]
                 ELSE [Advance(steps) EXCEPT !.failed = check.Branch], F)
    /\ check' = NoCheck
    /\ UNCHANGED stale

\* ExecuteRemove, after the answer y or at once with -f
RunExecuteRemove ==
    /\ steps.pc \in {"confirm", "execute"}
    /\ \E inside \in (IF check.IsActive THEN BOOLEAN ELSE {FALSE}),
          cmd \in (IF check.IsActive THEN {ShellCmd, OtherCmd} ELSE {ShellCmd}) :
       \E F \in Plans(LAMBDA G : ExecuteRemove(Cur, G, check, inside, cmd).w.reached,
                      FailBudget) :
       \E r \in {ExecuteRemove(Cur, F, check, inside, cmd)} :
          Commit(r.w, [NoOp EXCEPT !.op = "ExecuteRemove", !.a = check.Branch,
                                   !.err = IF r.ok THEN "" ELSE "adapter",
                                   !.chk = check,
                                   !.pane = paneReport(r.w.log, cmd)],
                 IF r.ok THEN [Advance(steps) EXCEPT !.removed = @ \cup {check.Branch}]
                 ELSE [steps EXCEPT !.pc = "aborted", !.failed = check.Branch], F)
    /\ check' = NoCheck
    /\ UNCHANGED stale

RemoveNext == RunPrepareRemove \/ RunDecline \/ RunExecuteRemove

RemoveSpec == RemoveInit /\ [][RemoveNext]_vars

-----------------------------------------------------------------------------
(* The rollback stack on its own, and Rename, the operation that uses it.  *)
(* steps.rb is the stack; the compensations are the branch renames that   *)
(* Rename registers, some of which git refuses in the repository at hand.  *)

MaxActions == 3

RollbackUndos ==
    {Undo("RenameBranch", a, b) : a \in ValidNames, b \in ValidNames} \
        {Undo("RenameBranch", a, a) : a \in ValidNames}

RollbackInit ==
    /\ \E g \in InitGit :
          /\ branches = g.br
          /\ unmerged = g.unm
          /\ worktrees = Soiled(<<MainWorktree(g.main)>> \o LinkedWorktrees(g.linked),
                                g.dirty)
    /\ windows \in InitWindows
    /\ session = (windows # <<>>)
    /\ check = NoCheck
    /\ stale = FALSE
    /\ last = NoOp
    /\ steps = [pc |-> "open", fails |-> 0, rb |-> newRollback]

\* rb.add(label, fn)
RollbackAdd ==
    /\ steps.pc = "open" /\ Len(steps.rb.actions) < MaxActions
    /\ \E undo \in RollbackUndos :
          /\ steps' = [steps EXCEPT !.rb = add(@, undo)]
          /\ last' = [NoOp EXCEPT !.op = "add", !.a = undo.a, !.b = undo.b]
    /\ UNCHANGED <<branches, unmerged, worktrees, session, windows, check, stale>>

\* rb.disarm()
RollbackDisarm ==
    /\ steps.pc = "open" /\ steps.rb.armed
    /\ steps' = [steps EXCEPT !.rb = disarm(@)]
    /\ last' = [NoOp EXCEPT !.op = "disarm"]
    /\ UNCHANGED <<branches, unmerged, worktrees, session, windows, check, stale>>

\* rb.execute(), deferred: it runs once, when the function returns
RollbackExecute ==
    /\ steps.pc = "open"
    /\ \E F \in Plans(LAMBDA G : execute(Cur, G, steps.rb).reached, FailBudget) :
       \E w \in {execute(Cur, F, steps.rb)} :
          Commit(w, [NoOp EXCEPT !.op = "execute"],
                 [steps EXCEPT !.pc = "executed"], F)
    /\ UNCHANGED <<check, stale>>

\* Service.Rename, with the stack it makes for itself
RollbackRename ==
    /\ steps.pc = "open" /\ steps.rb = newRollback
    /\ \E old \in ValidNames, new \in ValidNames,
          inside \in BOOLEAN, cmd \in {ShellCmd, OtherCmd} :
       \E F \in Plans(LAMBDA G : Rename(Cur, G, old, new, inside, FALSE, cmd).w.reached,
                      FailBudget) :
       \E r \in {Rename(Cur, F, old, new, inside, FALSE, cmd)} :
          Commit(r.w, [NoOp EXCEPT !.op = "Rename", !.a = old, !.b = new,
                                   !.err = r.err, !.path = r.path,
                                   !.created = r.created,
                                   !.pane = paneReport(r.w.log, cmd)],
                 [steps EXCEPT !.pc = "renamed"], F)
    /\ UNCHANGED <<check, stale>>

RollbackNext ==
    \/ RollbackAdd
    \/ RollbackDisarm
    \/ RollbackExecute
    \/ RollbackRename

RollbackSpec == RollbackInit /\ [][RollbackNext]_vars

-----------------------------------------------------------------------------
(* The name-prefixing Session decorator over a tmux server.  In this       *)
(* specification windows is the server: the windows of all its sessions,   *)
(* each with the name of its session and its own name, as tmux holds them; *)
(* a session exists while it has a window.  steps.client is what           *)
(* NewPrefixedClient returned.                                             *)

MaxServer == 3

DefaultPrefix == <<"h", "s", "/">>
SessionName == <<"r">>

\* strings.TrimPrefix
TrimPrefix(n, p) == IF HasPrefix(n, p) THEN SubSeq(n, Len(p) + 1, Len(n)) ELSE n

\* window names the engine asks for: branch names, one of them under hs/
ClientNames == {NameA, DefaultPrefix \o NameA}

\* window names a server may hold
ServerNames == ClientNames \cup {DefaultPrefix \o n : n \in ClientNames}

ServerWindow(s, n) == [sess |-> s, name |-> n]

InSession(srv, s) == SelectSeq(srv, LAMBDA x : x.sess = s)

\* the inner client: tmux has-session -t name
innerHasSession(srv, name) == InSession(srv, name) # <<>>

\* tmux new-session -d -s name -n windowName: refused for a session that exists
innerNewSession(srv, fail, name, windowName) ==
    LET ok == ~fail /\ ~innerHasSession(srv, name)
    IN [srv |-> IF ok THEN Append(srv, ServerWindow(name, windowName)) ELSE srv,
        ok |-> ok, val |-> <<>>,
        log |-> <<Ev("NewSession", <<name, windowName>>, ok)>>]

\* tmux new-window -a -t session -n name
innerNewWindow(srv, fail, sess, name) ==
    LET ok == ~fail /\ innerHasSession(srv, sess)
    IN [srv |-> IF ok THEN Append(srv, ServerWindow(sess, name)) ELSE srv,
        ok |-> ok, val |-> <<>>,
        log |-> <<Ev("NewWindow", <<sess, name>>, ok)>>]

\* tmux kill-window -t session:window
innerKillWindow(srv, fail, sess, window) ==
    LET ok == ~fail /\ \E i \in 1..Len(srv) : srv[i] = ServerWindow(sess, window)
    IN [srv |-> IF ok THEN SelectSeq(srv, LAMBDA x : x # ServerWindow(sess, window))
                ELSE srv,
        ok |-> ok, val |-> <<>>,
        log |-> <<Ev("KillWindow", <<sess, window>>, ok)>>]

\* tmux rename-window -t session:old new
innerRenameWindow(srv, fail, sess, old, new) ==
    LET ok == ~fail /\ \E i \in 1..Len(srv) : srv[i] = ServerWindow(sess, old)
    IN [srv |-> IF ok
                THEN [i \in 1..Len(srv) |->
                        IF srv[i] = ServerWindow(sess, old)
                        THEN ServerWindow(sess, new) ELSE srv[i]]
                ELSE srv,
        ok |-> ok, val |-> <<>>,
        log |-> <<Ev("RenameWindow", <<sess, old, new>>, ok)>>]

\* tmux list-windows -t session -F ...: the names, in the order of the server
innerListWindows(srv, fail, sess) ==
    LET ok == ~fail /\ innerHasSession(srv, sess)
        mine == InSession(srv, sess)
    IN [srv |-> srv, ok |-> ok,
        val |-> IF ok THEN [i \in 1..Len(mine) |-> mine[i].name] ELSE <<>>,
        log |-> <<Ev("ListWindows", <<sess>>, ok)>>]

\* NewPrefixedClient: the inner client itself for the empty prefix
NewPrefixedClient(prefix) ==
    IF prefix = <<>> THEN [kind |-> "inner", prefix |-> <<>>]
    ELSE [kind |-> "prefixed", prefix |-> prefix]

\* prefixedClient.add
prefixedAdd(c, name) == c.prefix \o name

\* a strip that takes off every leading prefix
prefixedStripAll(c, name) ==
    LET RECURSIVE All(_)
        All(n) == IF HasPrefix(n, c.prefix) THEN All(TrimPrefix(n, c.prefix)) ELSE n
    IN All(name)

\* prefixedClient.strip
prefixedStrip(c, name) == TrimPrefix(name, c.prefix)

\* the methods of the client NewPrefixedClient returned
ClientNewSession(c, srv, fail, name, windowName) ==
    IF c.kind = "inner" THEN innerNewSession(srv, fail, name, windowName)
    ELSE innerNewSession(srv, fail, prefixedAdd(c, name), prefixedAdd(c, windowName))

ClientNewWindow(c, srv, fail, sess, name) ==
    IF c.kind = "inner" THEN innerNewWindow(srv, fail, sess, name)
    ELSE innerNewWindow(srv, fail, prefixedAdd(c, sess), prefixedAdd(c, name))

ClientKillWindow(c, srv, fail, sess, window) ==
    IF c.kind = "inner" THEN innerKillWindow(srv, fail, sess, window)
    ELSE innerKillWindow(srv, fail, prefixedAdd(c, sess), prefixedAdd(c, window))

ClientRenameWindow(c, srv, fail, sess, old, new) ==
    IF c.kind = "inner" THEN innerRenameWindow(srv, fail, sess, old, new)
    ELSE innerRenameWindow(srv, fail, prefixedAdd(c, sess), prefixedAdd(c, old),
                           prefixedAdd(c, new))

ClientListWindows(c, srv, fail, sess) ==
    IF c.kind = "inner" THEN innerListWindows(srv, fail, sess)
    ELSE LET Listed(r) ==
                 IF ~r.ok THEN r
                 ELSE [r EXCEPT !.val = [i \in 1..Len(r.val) |->
                                           prefixedStrip(c, r.val[i])]]
         IN Listed(innerListWindows(srv, fail, prefixedAdd(c, sess)))

\* the servers the decorator may find: any windows in the session of the
\* repository under its plain and its prefixed name
ServerChoices ==
    SeqsUpTo({ServerWindow(s, n) : s \in {SessionName, DefaultPrefix \o SessionName},
                                   n \in ServerNames}, MaxServer - 1)

PrefixInit ==
    /\ branches = {}
    /\ unmerged = {}
    /\ worktrees = <<>>
    /\ windows \in ServerChoices
    /\ session = (windows # <<>>)
    /\ check = NoCheck
    /\ stale = FALSE
    /\ last = NoOp
    /\ \E prefix \in {<<>>, DefaultPrefix} :
          steps = [pc |-> "client", fails |-> 0, client |-> NewPrefixedClient(prefix)]

\* an adapter call may fail while the failure budget lasts
MayFail == IF steps.fails < MaxFail THEN BOOLEAN ELSE {FALSE}

\* the server after the call and the record of the call
Served(r, op, a, b, fail) ==
    /\ windows' = r.srv
    /\ session' = (r.srv # <<>>)
    /\ last' = [NoOp EXCEPT !.op = op, !.a = a, !.b = b, !.log = r.log,
                            !.val = r.val, !.err = IF r.ok THEN "" ELSE "adapter"]
    /\ steps' = [steps EXCEPT !.fails = IF fail THEN @ + 1 ELSE @]
    /\ UNCHANGED <<branches, unmerged, worktrees, check, stale>>

PrefixedNewSession ==
    /\ Len(windows) < MaxServer
    /\ \E n \in ClientNames, fail \in MayFail :
          Served(ClientNewSession(steps.client, windows, fail, SessionName, n),
                 "NewSession", n, <<>>, fail)

PrefixedNewWindow ==
    /\ Len(windows) < MaxServer
    /\ \E n \in ClientNames, fail \in MayFail :
          Served(ClientNewWindow(steps.client, windows, fail, SessionName, n),
                 "NewWindow", n, <<>>, fail)

PrefixedKillWindow ==
    \E n \in ClientNames, fail \in MayFail :
        Served(ClientKillWindow(steps.client, windows, fail, SessionName, n),
               "KillWindow", n, <<>>, fail)

PrefixedRenameWindow ==
    \E old \in ClientNames, new \in ClientNames, fail \in MayFail :
        Served(ClientRenameWindow(steps.client, windows, fail, SessionName, old, new),
               "RenameWindow", old, new, fail)

PrefixedListWindows ==
    \E fail \in MayFail :
        Served(ClientListWindows(steps.client, windows, fail, SessionName),
               "ListWindows", <<>>, <<>>, fail)

PrefixNext ==
    \/ PrefixedNewSession
    \/ PrefixedNewWindow
    \/ PrefixedKillWindow
    \/ PrefixedRenameWindow
    \/ PrefixedListWindows

PrefixSpec == PrefixInit /\ [][PrefixNext]_vars

-----------------------------------------------------------------------------
(* hashi list: CollectState applied to stores drawn from bounded sets.     *)

\* number of linked worktrees and of windows in the stores that are listed
MaxLinked == 2
MaxWindows == 2

\* a worktree on a detached HEAD: git reports no branch for it
DetachedWorktree(path, isMain) ==
    [Worktree(path, <<>>, isMain) EXCEPT !.detached = TRUE]

LinkedNames == {NameA, NameB}

LinkedChoices ==
    {Worktree(WorktreePath(p), b, FALSE) : p \in LinkedNames, b \in LinkedNames}
    \cup {DetachedWorktree(WorktreePath(p), FALSE) : p \in LinkedNames}

\* git keeps the paths distinct and checks a branch out in one worktree only
WellFormedWorktrees(wts) ==
    \A i, j \in 1..Len(wts) :
        i # j => /\ wts[i].path # wts[j].path
                 /\ (~wts[i].detached /\ ~wts[j].detached)
                    => wts[i].branch # wts[j].branch

\* the main worktree comes first in git worktree list
ListedWorktrees ==
    {wts \in {<<main>> \o l :
                 main \in {MainWorktree(DefaultBranch), MainWorktree(NameA),
                           DetachedWorktree(RepoRoot, TRUE)},
                 l \in SeqsUpTo(LinkedChoices, MaxLinked)} :
        WellFormedWorktrees(wts)}

\* a session has one active window; window names may repeat
ListedWindows ==
    {wins \in SeqsUpTo({Window(n, a) : n \in ValidNames, a \in BOOLEAN}, MaxWindows) :
        wins = <<>> \/ Cardinality({i \in 1..Len(wins) : wins[i].active}) = 1}

ListInit ==
    /\ worktrees \in ListedWorktrees
    /\ branches \in SUBSET ValidNames
    /\ unmerged = {}
    /\ windows \in ListedWindows
    /\ session = (windows # <<>>)
    /\ check = NoCheck
    /\ stale = FALSE
    /\ last = NoOp
    /\ steps = [pc |-> "idle", removes |-> 0, ext |-> 0, fails |-> 0,
                failed |-> <<>>, prepOk |-> FALSE]

\* hashi list
DoCollectState ==
    /\ steps.pc = "idle" /\ steps.removes = 0
    /\ \E F \in Plans(LAMBDA G : CollectState(Cur, G).w.reached, FailBudget) :
       \E r \in {CollectState(Cur, F)} :
          Commit(r.w, [NoOp EXCEPT !.op = "CollectState", !.err = r.err,
                                   !.val = r.val],
                 [steps EXCEPT !.pc = "done"], F)
    /\ UNCHANGED <<check, stale>>

ListNext == DoCollectState

ListSpec == ListInit /\ [][ListNext]_vars

-----------------------------------------------------------------------------
(* The JSON form of Status: MarshalJSON and UnmarshalJSON applied to       *)
(* Status values and to texts drawn from bounded sets.                     *)

\* number of pieces of a text handed to UnmarshalJSON
MaxData == 5

DataPieces ==
    {Quote, Backslash, "ok", "worktree_missing", "orphaned_window",
     "orphaned_worktree"}

\* the Status values and the first value past the table
StatusValues == 0..Len(statusTable)

StatusInit ==
    /\ \E g \in InitGit :
          /\ g.linked = <<>> /\ g.br = {DefaultBranch}
          /\ branches = g.br
          /\ unmerged = g.unm
          /\ worktrees = <<MainWorktree(g.main)>>
    /\ windows = <<>>
    /\ session = FALSE
    /\ check = NoCheck
    /\ stale = FALSE
    /\ \E data \in SeqsUpTo(DataPieces, MaxData) : last = [NoOp EXCEPT !.a = data]
    /\ steps = [pc |-> "codec", removes |-> 0, ext |-> 0, fails |-> 0,
                failed |-> <<>>, prepOk |-> FALSE]

\* json.Marshal of a Status: a is the text written
DoMarshalJSON ==
    /\ steps.pc = "codec" /\ last.op = "none"
    /\ \E st \in StatusValues :
          last' = [NoOp EXCEPT !.op = "MarshalJSON", !.a = MarshalJSON(st),
                               !.val = st]
    /\ UNCHANGED <<branches, unmerged, worktrees, session, windows, check,
                   stale, steps>>

\* json.Unmarshal of the text at hand into a Status that held the value b
DoUnmarshalJSON ==
    /\ steps.pc = "codec"
    /\ \E target \in StatusValues :
       \E r \in {UnmarshalJSON(target, last.a)} :
          last' = [NoOp EXCEPT !.op = "UnmarshalJSON", !.a = last.a,
                               !.b = target, !.val = r.st, !.err = r.err]
    /\ steps' = [steps EXCEPT !.pc = "done"]
    /\ UNCHANGED <<branches, unmerged, worktrees, session, windows, check, stale>>

StatusNext == DoMarshalJSON \/ DoUnmarshalJSON

StatusSpec == StatusInit /\ [][StatusNext]_vars

-----------------------------------------------------------------------------
(* The Validator: ValidateBranchName applied to names drawn from a bounded *)
(* set.                                                                    *)

\* number of fragments a candidate name is put together from
MaxParts == 3

NameFragments ==
    {<<"a">>, <<" ">>, <<"\t">>, <<"\n">>, <<"~">>, <<":">>, <<".">>, <<"@">>,
     <<"{">>, <<"-">>, <<"/">>, <<".", "l", "o", "c", "k">>}

RECURSIVE Flat(_)
\* the fragments put one after the other
Flat(parts) == IF parts = <<>> THEN <<>> ELSE Head(parts) \o Flat(Tail(parts))

CandidateNames == {Flat(parts) : parts \in SeqsUpTo(NameFragments, MaxParts)}

NameInit ==
    /\ \E g \in InitGit :
          /\ g.linked = <<>> /\ g.br = {DefaultBranch}
          /\ branches = g.br
          /\ unmerged = g.unm
          /\ worktrees = <<MainWorktree(g.main)>>
    /\ windows = <<>>
    /\ session = FALSE
    /\ check = NoCheck
    /\ stale = FALSE
    /\ \E n \in CandidateNames : last = [NoOp EXCEPT !.a = n]
    /\ steps = [pc |-> "name", removes |-> 0, ext |-> 0, fails |-> 0,
                failed |-> <<>>, prepOk |-> FALSE]

\* the first step of New, Switch, Rename and PrepareRemove on the name given
DoValidateBranchName ==
    /\ steps.pc = "name"
    /\ last' = [NoOp EXCEPT !.op = "ValidateBranchName", !.a = last.a,
                            !.err = ValidateBranchName(last.a)]
    /\ steps' = [steps EXCEPT !.pc = "done"]
    /\ UNCHANGED <<branches, unmerged, worktrees, session, windows, check, stale>>

NameNext == DoValidateBranchName

NameSpec == NameInit /\ [][NameNext]_vars

-----------------------------------------------------------------------------
(* Properties.  last is the record of the latest engine call: its          *)
(* arguments, its error and the adapter calls it issued, in order.         *)

IssuedIn(log, call) == {i \in 1..Len(log) : log[i].call = call}
SucceededIn(log, call) == {i \in IssuedIn(log, call) : log[i].ok}
FailedIn(log, call) == {i \in IssuedIn(log, call) : ~log[i].ok}
IssuedWithIn(log, call, arg) == {i \in IssuedIn(log, call) : log[i].arg = arg}

Log == last.log
Issued(call) == IssuedIn(Log, call)
Succeeded(call) == SucceededIn(Log, call)
Failed(call) == FailedIn(Log, call)
IssuedWith(call, arg) == IssuedWithIn(Log, call, arg)

\* C1: in every ExecuteRemove, the worktree removal and the branch deletion
\* (each when the check says the resource exists) have been issued and have
\* succeeded before the window kill is issued, and no window kill is issued
\* after either of them failed.
C1_GitBeforeKillWindow ==
    last.op = "ExecuteRemove" =>
        \A k \in Issued("KillWindow") :
            /\ last.chk.HasWorktree => \E i \in Succeeded("RemoveWorktree") : i < k
            /\ last.chk.HasBranch => \E i \in Succeeded("DeleteBranch") : i < k
            /\ \A i \in Failed("RemoveWorktree") \cup Failed("DeleteBranch") : ~(i < k)

C1_Witness ==
    /\ last.op = "ExecuteRemove"
    /\ last.chk.HasWorktree /\ last.chk.HasBranch /\ last.chk.IsActive
    /\ Succeeded("KillWindow") # {}

\* C2: when New created a brand-new branch with its worktree and the session
\* or window creation then fails, New returns an error and issues the
\* worktree removal and the branch deletion for exactly that path and that
\* branch; when both succeed, neither the branch nor the worktree exists.
C2_NewRollsBackOnTmuxFailure ==
    (/\ last.op = "New"
     /\ Succeeded("AddWorktreeNewBranch") # {}
     /\ Failed("NewSession") \cup Failed("NewWindow") # {})
    => /\ last.err # ""
       /\ Issued("RemoveWorktree") # {}
       /\ Issued("RemoveWorktree") = IssuedWith("RemoveWorktree", <<WorktreePath(last.a)>>)
       /\ Issued("DeleteBranch") # {}
       /\ Issued("DeleteBranch") = IssuedWith("DeleteBranch", <<last.a>>)
       /\ (Succeeded("RemoveWorktree") # {} /\ Succeeded("DeleteBranch") # {})
          => /\ last.a \notin branches
             /\ findWorktree(worktrees, last.a) = 0
             /\ ~PathTaken(worktrees, WorktreePath(last.a))

C2_Witness ==
    /\ last.op = "New"
    /\ Succeeded("AddWorktreeNewBranch") # {}
    /\ Failed("NewWindow") # {}
    /\ Succeeded("RemoveWorktree") # {} /\ Succeeded("DeleteBranch") # {}

\* the part of the worktree list the VCS reports: path and branch
WtSet(wts) == {<<wts[i].path, wts[i].branch>> : i \in 1..Len(wts)}

\* Rename's log: the repair failed after the directory was moved
RepairFailedAfterMove(log) ==
    \E i \in SucceededIn(log, "os.Rename"), j \in FailedIn(log, "RepairWorktrees") : i < j

\* Rename's log: the move back and the rename back, by their arguments
MoveBackIn(log, new) == {i \in IssuedIn(log, "os.Rename") : log[i].arg[1] = WorktreePath(new)}
RenameBackIn(log, old, new) == IssuedWithIn(log, "RenameBranch", <<new, old>>)

\* both compensations of Rename were issued and none of them failed
CompensationsOk(log, old, new) ==
    /\ \A i \in MoveBackIn(log, new) \cup RenameBackIn(log, old, new) : log[i].ok
    /\ RenameBackIn(log, old, new) # {}

\* C3 as stated: when the repair fails after the move, Rename returns an error
\* and the branches and the worktrees after the call equal those before it.
C3_RepairFailureRestores ==
    [][(last'.op = "Rename" /\ RepairFailedAfterMove(last'.log))
       => /\ last'.err # ""
          /\ branches' = branches
          /\ worktrees' = worktrees]_vars

\* C3 amended: when the repair fails after the move, Rename returns an error
\* and issues the move back and the rename back; the branches and the
\* worktrees equal those before the call when both of them succeed.
C3_RepairFailureRestoresIfUndone ==
    [][(last'.op = "Rename" /\ RepairFailedAfterMove(last'.log))
       => /\ last'.err # ""
          /\ MoveBackIn(last'.log, last'.b) # {}
          /\ RenameBackIn(last'.log, last'.a, last'.b) # {}
          /\ CompensationsOk(last'.log, last'.a, last'.b)
             => (branches' = branches /\ worktrees' = worktrees)]_vars

C3_Witness ==
    /\ last.op = "Rename"
    /\ RepairFailedAfterMove(Log)
    /\ MoveBackIn(Log, last.b) # {}
    /\ CompensationsOk(Log, last.a, last.b)

\* C4 as stated: wherever Rename fails after the branch rename, when the
\* compensations succeed the branches and the worktrees (path and branch)
\* after the failed call equal those before it.
C4_RenameAtomic ==
    [][(/\ last'.op = "Rename"
        /\ last'.err # ""
        /\ SucceededIn(last'.log, "RenameBranch") # {}
        /\ CompensationsOk(last'.log, last'.a, last'.b))
       => /\ branches' = branches
          /\ WtSet(worktrees') = WtSet(worktrees)]_vars

\* New's log: steps of New that can fail after the branch or worktree was made
Created == Succeeded("AddWorktree") \cup Succeeded("AddWorktreeNewBranch")
CopyOrTmuxFailed ==
    \/ Failed("copyFiles") # {}
    \/ \E c \in {"HasSession", "NewSession", "ListWindows", "NewWindow"} : Failed(c) # {}
ConnectFailed == Failed("SwitchClient") \cup Failed("AttachSession") # {}
RollbackIssued ==
    /\ IssuedWith("RemoveWorktree", <<WorktreePath(last.a)>>) # {}
    /\ Succeeded("AddWorktreeNewBranch") # {} => IssuedWith("DeleteBranch", <<last.a>>) # {}

\* C5 as stated: whenever New returns an error after it created a branch or a
\* worktree, whichever later step failed, the rollback is issued.
C5_NewAlwaysRollsBack ==
    (last.op = "New" /\ last.err # "" /\ Created # {}) => RollbackIssued

\* C5 amended: when New created a branch or a worktree and the file copy or
\* the session/window creation fails, the rollback is issued before New
\* returns the error; when the final connect fails, New returns the error
\* and issues no rollback.
C5_NewRollsBackBeforeConnect ==
    (last.op = "New" /\ Created # {})
    => /\ CopyOrTmuxFailed => (last.err # "" /\ RollbackIssued)
       /\ ConnectFailed => /\ last.err # ""
                           /\ Issued("RemoveWorktree") \cup Issued("DeleteBranch") = {}

C5_Witness ==
    /\ last.op = "New" /\ Succeeded("AddWorktreeNewBranch") # {}
    /\ Failed("copyFiles") # {}
    /\ Succeeded("RemoveWorktree") # {} /\ Succeeded("DeleteBranch") # {}

C5_WitnessConnect ==
    /\ last.op = "New" /\ Succeeded("AddWorktreeNewBranch") # {}
    /\ ConnectFailed
    /\ last.a \in branches

\* the adapter calls that change a store or the file system
Mutating ==
    {"RenameBranch", "DeleteBranch", "AddWorktree", "AddWorktreeNewBranch",
     "RemoveWorktree", "RepairWorktrees", "os.Rename", "os.Remove", "MkdirAll",
     "copyFiles", "NewSession", "KillSession", "NewWindow", "KillWindow",
     "RenameWindow", "SendKeys", "SwitchClient", "AttachSession"}

MutatingIssued == {i \in 1..Len(Log) : Log[i].call \in Mutating}

\* C6 as stated: New, Switch, Rename and PrepareRemove reject a name that
\* fails the Validator (for Rename the old and the new name) before any
\* mutating adapter call is issued.
C6_ValidatedBeforeMutation ==
    (/\ last.op \in {"New", "Switch", "Rename", "PrepareRemove"}
     /\ \/ ValidateBranchName(last.a) # ""
        \/ last.op = "Rename" /\ ValidateBranchName(last.b) # "")
    => (last.err # "" /\ MutatingIssued = {})

\* C7 as stated: no directory move and no worktree removal is issued against
\* the main worktree, the repository root.
C7_MainWorktreeUntouched ==
    /\ \A i \in Issued("os.Rename") : RepoRoot \notin {Log[i].arg[1], Log[i].arg[2]}
    /\ \A i \in Issued("RemoveWorktree") : Log[i].arg[1] # RepoRoot

\* the removal calls of ExecuteRemove
Removals == Issued("RemoveWorktree") \cup Issued("DeleteBranch") \cup Issued("KillWindow")

C9_RemoveResumable ==
    (/\ last.op = "ExecuteRemove"
     /\ steps.failed = last.a
     /\ steps.prepOk /\ ~stale
     /\ AllOk(Log))
    => /\ last.a \notin branches
       /\ findWorktree(worktrees, last.a) = 0
       /\ findWindow(windows, last.a) = 0

C9_Witness ==
    /\ last.op = "ExecuteRemove"
    /\ steps.failed = last.a
    /\ steps.prepOk /\ ~stale
    /\ AllOk(Log)
    /\ Succeeded("DeleteBranch") # {} /\ Succeeded("KillWindow") # {}

\* ExecuteRemove's log up to its first removal call
FirstRemoval == IF Removals = {} THEN Len(Log) + 1
                ELSE CHOOSE i \in Removals : \A j \in Removals : i <= j
EnsureCalls == {"HasSession", "NewSession", "ListWindows", "NewWindow"}
EnsureFailed == \E i \in 1..(FirstRemoval - 1) : Log[i].call \in EnsureCalls /\ ~Log[i].ok
EnsureMadeWindow ==
    \E i \in 1..(FirstRemoval - 1) :
        /\ Log[i].ok
        /\ \/ Log[i].call \in {"NewSession", "NewWindow"} /\ Log[i].arg[1] = DefaultBranch
           \/ /\ Log[i].call = "ListWindows"
              /\ \A j \in (i + 1)..(FirstRemoval - 1) : Log[j].call # "NewWindow"

\* C10: when the check marks the window active, ExecuteRemove ensures the
\* default branch's window before any removal; when that fails it returns an
\* error and has issued no worktree removal, branch deletion or window kill;
\* a failed client switch does not abort the removal.
C10_ActiveWindowSwitchedFirst ==
    (last.op = "ExecuteRemove" /\ last.chk.IsActive)
    => /\ Removals # {} => EnsureMadeWindow
       /\ EnsureFailed => (last.err # "" /\ Removals = {})
       /\ (Failed("SwitchClient") # {} /\ ~EnsureFailed)
          => \E i \in Removals : \A j \in Failed("SwitchClient") : j < i

C10_Witness ==
    /\ last.op = "ExecuteRemove" /\ last.chk.IsActive
    /\ Failed("SwitchClient") # {}
    /\ Succeeded("NewWindow") # {}
    /\ Succeeded("KillWindow") # {}

C10_WitnessAbort ==
    /\ last.op = "ExecuteRemove" /\ last.chk.IsActive
    /\ Failed("NewWindow") # {}
    /\ last.err # ""

\* C11 as stated: an ExecuteRemove called while the session holds a window
\* other than the one it removes leaves the session alive, whichever adapter
\* call fails.
C11_SessionWithWindowsNeverKilled ==
    [][(/\ steps.pc = "confirm"
        /\ last'.op = "ExecuteRemove"
        /\ \E i \in 1..Len(windows) : windows[i].name # check.Branch)
       => (session' /\ windows' # <<>>)]_vars

\* C12: PrepareRemove issues only read-only adapter calls; on every outcome
\* the branches, the worktrees, the session and the windows after the call
\* equal those before it.
C12_PrepareRemoveReadOnly ==
    [][(steps.pc = "idle" /\ last'.op = "PrepareRemove")
       => /\ \A i \in 1..Len(last'.log) : last'.log[i].call \notin Mutating
          /\ branches' = branches
          /\ unmerged' = unmerged
          /\ worktrees' = worktrees
          /\ session' = session
          /\ windows' = windows]_vars

C12_Witness ==
    /\ last.op = "PrepareRemove" /\ last.err = ""
    /\ last.chk.HasWorktree /\ last.chk.HasWindow
    /\ Issued("HasUncommittedChanges") # {} /\ Issued("IsMerged") # {}

C12_WitnessNotFound ==
    /\ last.op = "PrepareRemove" /\ last.err = "notfound"
    /\ Issued("ListWindows") # {}

\* C13: in PrepareRemove the uncommitted-changes probe is issued only when
\* the branch and its worktree both exist, and when it fails the check says
\* "no uncommitted changes"; the merge probe is issued only when the branch
\* exists, and when it fails the check says "unmerged"; PrepareRemove
\* returns no error after either failure.
C13_ProbeFailureDefaults ==
    last.op = "PrepareRemove"
    => /\ Issued("HasUncommittedChanges") # {}
          => /\ last.chk.HasBranch /\ last.chk.HasWorktree
             /\ ~stale => (last.a \in branches /\ findWorktree(worktrees, last.a) # 0)
       /\ Issued("IsMerged") # {}
          => /\ last.chk.HasBranch
             /\ ~stale => last.a \in branches
       /\ Failed("HasUncommittedChanges") # {}
          => (last.err = "" /\ ~last.chk.HasUncommitted)
       /\ Failed("IsMerged") # {}
          => (last.err = "" /\ last.chk.IsUnmerged)

C13_Witness ==
    /\ last.op = "PrepareRemove" /\ last.err = ""
    /\ Failed("HasUncommittedChanges") # {}
    /\ Failed("IsMerged") # {}
    /\ last.a \notin unmerged

\* the queries PrepareRemove decides the existence fields on
ExistenceQueries == {"BranchExists", "ListWorktrees", "HasSession", "ListWindows"}

\* C14: PrepareRemove returns the default-branch error for the default
\* branch.  For another valid name, when its existence queries answer, it
\* returns branch-not-found exactly when the stores hold neither a branch nor
\* a worktree nor a window for the name, and otherwise a check whose
\* HasBranch, HasWorktree with WorktreePath, and HasWindow with IsActive equal
\* what the stores hold, a worktree or window without a branch included.
C14_PrepareRemoveReportsStores ==
    (last.op = "PrepareRemove" /\ ~stale)
    => /\ last.a = DefaultBranch => last.err = "default"
       /\ (/\ last.a # DefaultBranch
           /\ ValidateBranchName(last.a) = ""
           /\ \A c \in ExistenceQueries : Failed(c) = {})
          => LET wt == {i \in 1..Len(worktrees) : worktrees[i].branch = last.a}
                 wn == {i \in 1..Len(windows) : session /\ windows[i].name = last.a}
             IN /\ last.err \in {"", "notfound"}
                /\ last.err = "notfound" <=> (last.a \notin branches /\ wt = {} /\ wn = {})
                /\ last.err = ""
                   => /\ last.chk.Branch = last.a
                      /\ last.chk.HasBranch <=> last.a \in branches
                      /\ last.chk.HasWorktree <=> wt # {}
                      /\ \A i \in wt : (\A j \in wt : i <= j)
                                       => last.chk.WorktreePath = worktrees[i].path
                      /\ last.chk.HasWindow <=> wn # {}
                      /\ \A i \in wn : (\A j \in wn : i <= j)
                                       => last.chk.IsActive = windows[i].active
                      /\ wn = {} => ~last.chk.IsActive

\* a window without branch or worktree
C14_Witness ==
    /\ last.op = "PrepareRemove" /\ ~stale /\ last.err = ""
    /\ last.a \notin branches
    /\ ~last.chk.HasBranch /\ ~last.chk.HasWorktree
    /\ last.chk.HasWindow /\ last.chk.IsActive

\* a worktree without branch or window
C14_WitnessWorktree ==
    /\ last.op = "PrepareRemove" /\ ~stale /\ last.err = ""
    /\ ~last.chk.HasBranch /\ last.chk.HasWorktree /\ ~last.chk.HasWindow

C14_WitnessDefault ==
    last.op = "PrepareRemove" /\ last.a = DefaultBranch /\ last.err = "default"

\* the five store variables are left as they were
StoresUnchanged ==
    /\ branches' = branches
    /\ unmerged' = unmerged
    /\ worktrees' = worktrees
    /\ session' = session
    /\ windows' = windows

\* the call whose record is last' issued no mutating adapter call
NoMutationNext == \A i \in 1..Len(last'.log) : last'.log[i].call \notin Mutating

\* C15: Switch on a branch that does not exist returns an error, which is
\* branch-not-found when the name is valid and the existence query answers;
\* it issues no mutating adapter call, and no branch, worktree, session or
\* window is created.
C15_SwitchMissingBranch ==
    [][(steps.pc \in {"idle", "switched"} /\ last'.op = "Switch" /\ last'.a \notin branches)
       => /\ last'.err # ""
          /\ (/\ ValidateBranchName(last'.a) = ""
              /\ FailedIn(last'.log, "BranchExists") = {}) => last'.err = "notfound"
          /\ NoMutationNext
          /\ StoresUnchanged]_vars

C15_Witness ==
    /\ last.op = "Switch" /\ last.err = "notfound"
    /\ last.a \notin branches
    /\ findWorktree(worktrees, last.a) # 0
    /\ Succeeded("BranchExists") # {}

\* the calls that create, delete or rename a branch, remove a worktree or
\* kill a window or the session
Destructive ==
    {"AddWorktreeNewBranch", "DeleteBranch", "RenameBranch", "RemoveWorktree",
     "KillWindow", "KillSession"}

\* C16: on every path Switch issues no call that creates, deletes or renames
\* a branch, removes a worktree or kills a window; the branches are those
\* before the call, every worktree and window of before is still there, and
\* so is the worktree or the window the call created, also when it fails
\* afterwards.
C16_SwitchNeverUndoes ==
    [][(steps.pc \in {"idle", "switched"} /\ last'.op = "Switch")
       => /\ \A i \in 1..Len(last'.log) : last'.log[i].call \notin Destructive
          /\ branches' = branches
          /\ WtSet(worktrees) \subseteq WtSet(worktrees')
          /\ \A i \in 1..Len(windows) :
                 \E j \in 1..Len(windows') : windows'[j].name = windows[i].name
          /\ session => session'
          /\ SucceededIn(last'.log, "AddWorktree") # {}
             => <<WorktreePath(last'.a), last'.a>> \in WtSet(worktrees')
          /\ SucceededIn(last'.log, "NewSession") \cup SucceededIn(last'.log, "NewWindow") # {}
             => (session' /\ findWindow(windows', last'.a) # 0)]_vars

\* the connect fails after the worktree and the window were created
C16_Witness ==
    /\ last.op = "Switch" /\ last.err # ""
    /\ Succeeded("AddWorktree") # {} /\ Succeeded("NewWindow") # {}
    /\ ConnectFailed
    /\ last.a \in branches

\* the file copy fails after the worktree was created
C16_WitnessCopy ==
    /\ last.op = "Switch" /\ last.err # ""
    /\ Succeeded("AddWorktree") # {} /\ Failed("copyFiles") # {}
    /\ findWorktree(worktrees, last.a) # 0

\* the calls that create a worktree, and the session/window creations that
\* were handed a non-empty init command
WorktreeCreate == {"AddWorktree", "AddWorktreeNewBranch"}
InitHanded(log) ==
    {i \in 1..Len(log) : log[i].call \in {"NewSession", "NewWindow"} /\ log[i].arg[3] # ""}

C17_WitnessRename ==
    /\ last.op = "Rename" /\ last.hooks /\ last.err = ""
    /\ Succeeded("os.Rename") # {}
    /\ Succeeded("NewWindow") # {}

C17_WitnessDefault ==
    /\ last.op = "New" /\ last.hooks /\ last.err = ""
    /\ last.a = DefaultBranch
    /\ Succeeded("NewSession") # {}

\* the calls that create a worktree, a session or a window or copy files
Creating == WorktreeCreate \cup {"MkdirAll", "copyFiles", "NewSession", "NewWindow"}

\* C18: a Switch of the branch that the preceding, successful Switch was
\* called with issues no call that creates a worktree, a session or a window
\* or copies files, and leaves the worktrees and the windows as they were,
\* whichever of its calls fails.
C18_SwitchIdempotent ==
    [][(steps.pc = "switched" /\ last'.op = "Switch" /\ last'.a = last.a)
       => /\ \A i \in 1..Len(last'.log) : last'.log[i].call \notin Creating
          /\ ~last'.created
          /\ branches' = branches
          /\ worktrees' = worktrees
          /\ session' = session
          /\ [i \in 1..Len(windows') |-> windows'[i].name]
             = [i \in 1..Len(windows) |-> windows[i].name]]_vars

\* the second Switch of a branch succeeds after the first created things
C18_Witness ==
    /\ last.op = "Switch" /\ last.again /\ last.err = ""
    /\ last.a # DefaultBranch
    /\ last.path = WorktreePath(last.a)
    /\ Succeeded("ListWindows") # {}
    /\ steps.fails = 0

\* C19: New returns an error, issues no mutating adapter call and leaves the
\* stores as they were when the branch exists and a base is supplied, and
\* when the branch is absent and the base it resolves (the supplied one, else
\* the default branch) is not a branch.  For valid names whose existence
\* queries answer, the errors are "base given for an existing branch" and
\* branch-not-found.
C19_NewRejectsBase ==
    [][(steps.pc = "idle" /\ last'.op = "New")
       => LET base == IF last'.b = NoBase THEN DefaultBranch ELSE last'.b
              answered == /\ ValidateBranchName(last'.a) = ""
                          /\ ValidateBranchName(base) = ""
                          /\ FailedIn(last'.log, "BranchExists") = {}
          IN /\ (last'.a \in branches /\ last'.b # NoBase)
                => /\ last'.err # ""
                   /\ answered => last'.err = "base-for-existing"
                   /\ NoMutationNext /\ StoresUnchanged
             /\ (last'.a \notin branches /\ base \notin branches)
                => /\ last'.err # ""
                   /\ answered => last'.err = "notfound"
                   /\ NoMutationNext /\ StoresUnchanged]_vars

C19_Witness ==
    /\ last.op = "New" /\ last.err = "base-for-existing"
    /\ last.a \in branches /\ last.b \in branches

C19_WitnessNoBase ==
    /\ last.op = "New" /\ last.err = "notfound"
    /\ last.a \notin branches /\ last.b = NameB /\ NameB \notin branches
    /\ Len(Log) = Cardinality(Succeeded("BranchExists"))

\* C20 as stated: Rename returns the default-branch error when old is the
\* default branch, branch-not-found when old is not a branch, and
\* branch-already-exists when new is a branch or is the default branch; in
\* each case it issues no mutating adapter call and the stores are unchanged.
C20_RenamePreconditions ==
    [][(steps.pc = "idle" /\ last'.op = "Rename")
       => LET old == last'.a
              new == last'.b
              answered == FailedIn(last'.log, "BranchExists") = {}
          IN /\ old = DefaultBranch
                => (last'.err = "default" /\ NoMutationNext /\ StoresUnchanged)
             /\ (old # DefaultBranch /\ old \notin branches)
                => /\ last'.err # ""
                   /\ answered => last'.err = "notfound"
                   /\ NoMutationNext /\ StoresUnchanged
             /\ (/\ old # DefaultBranch /\ old \in branches
                 /\ (new \in branches \/ new = DefaultBranch))
                => /\ last'.err # ""
                   /\ answered => last'.err = "exists"
                   /\ NoMutationNext /\ StoresUnchanged]_vars

\* the worktrees bound to a branch, and those registered or sitting at a path
WorktreesOf(wts, b) == {i \in 1..Len(wts) : wts[i].branch = b}
WorktreesAt(wts, p) == {i \in 1..Len(wts) : wts[i].path = p \/ wts[i].dir = p}

\* C21: after a successful Rename(old, new), old is no branch and new is one.
\* When old had a worktree, that worktree is bound to new, registered and
\* placed at the canonical path of new, nothing is left at the path it had,
\* and the result says "not created"; when old had none, a worktree for new
\* was added at the canonical path of new and the result says "created".
C21_RenameMovesOrCreates ==
    [][(steps.pc = "idle" /\ last'.op = "Rename" /\ last'.err = "")
       => LET old == last'.a
              new == last'.b
              had == WorktreesOf(worktrees, old)
              now == WorktreesOf(worktrees', new)
          IN /\ old \notin branches' /\ new \in branches'
             /\ WorktreesOf(worktrees', old) = {}
             /\ now # {}
             /\ \A i \in now : /\ worktrees'[i].path = WorktreePath(new)
                                /\ worktrees'[i].dir = WorktreePath(new)
             /\ last'.path = WorktreePath(new)
             /\ had # {}
                => /\ ~last'.created
                   /\ IssuedIn(last'.log, "AddWorktree") = {}
                   /\ \A i \in had :
                          worktrees[i].path # WorktreePath(new)
                          => WorktreesAt(worktrees', worktrees[i].path) = {}
             /\ had = {}
                => /\ last'.created
                   /\ IssuedWithIn(last'.log, "AddWorktree", <<WorktreePath(new), new>>)
                      \cap SucceededIn(last'.log, "AddWorktree") # {}]_vars

\* the worktree of old was moved
C21_Witness ==
    /\ last.op = "Rename" /\ last.err = "" /\ ~last.created
    /\ Succeeded("os.Rename") # {} /\ Succeeded("RepairWorktrees") # {}
    /\ WorktreesOf(worktrees, last.b) # {}

\* old had no worktree
C21_WitnessCreated ==
    /\ last.op = "Rename" /\ last.err = "" /\ last.created
    /\ Succeeded("AddWorktree") # {}

\* the window and session calls of the engine
TmuxCalls ==
    {"HasSession", "ListWindows", "RenameWindow", "PaneCurrentCommand", "SendKeys",
     "NewSession", "NewWindow", "KillWindow", "KillSession", "SwitchClient",
     "AttachSession"}

TmuxIssued == {i \in 1..Len(Log) : Log[i].call \in TmuxCalls}
TmuxFailed == {i \in TmuxIssued : ~Log[i].ok}

\* C22: a Rename that reached its window and session calls returns success
\* whichever of them fail, issues no rename back, and leaves the branch and
\* the worktree under the new name.
C22_RenameTmuxBestEffort ==
    (last.op = "Rename" /\ TmuxIssued # {})
    => /\ last.err = ""
       /\ RenameBackIn(Log, last.a, last.b) = {}
       /\ MoveBackIn(Log, last.b) = {}
       /\ Issued("RemoveWorktree") \cup Issued("DeleteBranch") = {}
       /\ last.b \in branches /\ last.a \notin branches
       /\ WorktreesOf(worktrees, last.b) # {}
       /\ last.path = WorktreePath(last.b)

\* the window rename and the reconnect both fail
C22_Witness ==
    /\ last.op = "Rename" /\ last.err = ""
    /\ Failed("RenameWindow") # {}
    /\ ConnectFailed
    /\ last.b \in branches

\* the window listing fails
C22_WitnessList ==
    /\ last.op = "Rename" /\ last.err = ""
    /\ Failed("ListWindows") # {}


\* the States a CollectState that meets no failure returns in the current stores
Listing == CollectState(Cur, {}).val

\* the entries of a listing for branch b
EntriesOf(out, b) == {i \in 1..Len(out) : out[i].Branch = b}

\* C23: after New(b) or Switch(b) returned success, branch b exists, a
\* worktree for b exists (the repository root when b is the default branch),
\* a window named b exists in the session, and a following CollectState
\* reports b with window = true and status ok.
C23_SuccessLeavesAllThree ==
    (last.op \in {"New", "Switch"} /\ last.err = "")
    => /\ last.a \in branches
       /\ \E i \in WorktreesOf(worktrees, last.a) :
             last.a = DefaultBranch => worktrees[i].path = RepoRoot
       /\ session /\ findWindow(windows, last.a) # 0
       /\ EntriesOf(Listing, last.a) # {}
       /\ \A i \in EntriesOf(Listing, last.a) :
             Listing[i].Window /\ Listing[i].Status = StatusOK


\* Switch to the default branch succeeded in a repository whose root has
\* another branch checked out: the listing shows the default branch from its
\* window alone, as worktree_missing
C23_RootOnOtherBranch ==
    /\ last.op = "Switch" /\ last.err = "" /\ last.a = DefaultBranch
    /\ WorktreesOf(worktrees, DefaultBranch) = {}
    /\ \E i \in EntriesOf(Listing, DefaultBranch) :
          Listing[i].Window /\ Listing[i].Status = StatusWorktreeMissing


\* the worktrees that are not on a detached HEAD
Attached(wts) == {i \in 1..Len(wts) : ~wts[i].detached}

\* the window list the latest call worked with: empty when there is no
\* session or the lookup failed
WindowsRead ==
    IF ~session \/ Failed("HasSession") \cup Failed("ListWindows") # {}
    THEN <<>> ELSE windows

WindowsNamed(wins, n) == {j \in 1..Len(wins) : wins[j].name = n}

\* C24: CollectState gives every worktree that is not detached the status ok
\* when it is the main worktree or its branch is in the branch list and
\* orphaned_worktree otherwise, with window and active joined on the name;
\* it gives every window that matches no such worktree the status
\* worktree_missing when its name is in the branch list and orphaned_window
\* otherwise.
C24_CollectStateClassifies ==
    (last.op = "CollectState" /\ last.err = "")
    => /\ \A i \in Attached(worktrees) :
             \E k \in 1..Len(last.val) :
                /\ last.val[k].Branch = worktrees[i].branch
                /\ last.val[k].Worktree = worktrees[i].path
                /\ last.val[k].Status =
                      IF worktrees[i].isMain \/ worktrees[i].branch \in branches
                      THEN StatusOK ELSE StatusOrphanedWorktree
                /\ last.val[k].Window
                      = (WindowsNamed(WindowsRead, worktrees[i].branch) # {})
                /\ IF last.val[k].Window
                   THEN \E j \in WindowsNamed(WindowsRead, worktrees[i].branch) :
                           last.val[k].Active = WindowsRead[j].active
                   ELSE ~last.val[k].Active
       /\ \A j \in 1..Len(WindowsRead) :
             (\A i \in Attached(worktrees) : worktrees[i].branch # WindowsRead[j].name)
             => \E k \in 1..Len(last.val) :
                   /\ last.val[k].Branch = WindowsRead[j].name
                   /\ last.val[k].Worktree = <<>>
                   /\ last.val[k].Window
                   /\ last.val[k].Active = WindowsRead[j].active
                   /\ last.val[k].Status =
                         IF WindowsRead[j].name \in branches
                         THEN StatusWorktreeMissing ELSE StatusOrphanedWindow

\* a listing with a healthy entry, an orphaned worktree and a window whose
\* worktree is missing
C24_Witness ==
    /\ last.op = "CollectState" /\ last.err = ""
    /\ {StatusOK, StatusOrphanedWorktree, StatusWorktreeMissing}
          \subseteq {last.val[k].Status : k \in 1..Len(last.val)}
    /\ \E k \in 1..Len(last.val) : last.val[k].Worktree # <<>> /\ last.val[k].Active

\* a listing with an orphaned window, of a repository whose main worktree
\* has a branch that is not in the branch list
C24_WitnessOrphanedWindow ==
    /\ last.op = "CollectState" /\ last.err = ""
    /\ \E k \in 1..Len(last.val) : last.val[k].Status = StatusOrphanedWindow
    /\ ~worktrees[1].detached /\ worktrees[1].branch \notin branches


\* the attached worktrees, in the order of the store
AttachedSeq == SelectSeq(worktrees, LAMBDA wt : ~wt.detached)

\* the windows read that are named after no attached worktree, in order
UnmatchedSeq ==
    SelectSeq(WindowsRead,
              LAMBDA x : \A i \in Attached(worktrees) : worktrees[i].branch # x.name)

\* C25: the output of CollectState is exactly the worktrees that are not
\* detached, in the order of the VCS, followed by the windows that match no
\* worktree, in the order of the multiplexer; a detached worktree and a
\* branch with neither worktree nor window never appear.
C25_CollectStateOrder ==
    (last.op = "CollectState" /\ last.err = "")
    => /\ Len(last.val) = Len(AttachedSeq) + Len(UnmatchedSeq)
       /\ \A k \in 1..Len(AttachedSeq) :
             /\ last.val[k].Branch = AttachedSeq[k].branch
             /\ last.val[k].Worktree = AttachedSeq[k].path
       /\ \A k \in 1..Len(UnmatchedSeq) :
             /\ last.val[Len(AttachedSeq) + k].Branch = UnmatchedSeq[k].name
             /\ last.val[Len(AttachedSeq) + k].Worktree = <<>>
       /\ \A k \in 1..Len(last.val) :
             /\ \A i \in 1..Len(worktrees) :
                   worktrees[i].detached => last.val[k].Worktree # worktrees[i].path
             /\ \/ last.val[k].Branch \in {AttachedSeq[i].branch : i \in 1..Len(AttachedSeq)}
                \/ WindowsNamed(WindowsRead, last.val[k].Branch) # {}

\* a listing of two attached worktrees and a detached one, with a window
\* that matches no worktree
C25_Witness ==
    /\ last.op = "CollectState" /\ last.err = ""
    /\ Len(AttachedSeq) >= Cardinality(LinkedNames)
    /\ UnmatchedSeq # <<>>
    /\ \E i \in 1..Len(worktrees) : worktrees[i].detached

\* a listing of two windows that match no worktree, where a branch has
\* neither worktree nor window
C25_WitnessAbsent ==
    /\ last.op = "CollectState" /\ last.err = ""
    /\ Len(UnmatchedSeq) >= Cardinality(LinkedNames)
    /\ UnmatchedSeq[1].name # UnmatchedSeq[Len(UnmatchedSeq)].name
    /\ \E b \in branches :
          /\ WindowsNamed(windows, b) = {}
          /\ \A i \in Attached(worktrees) : worktrees[i].branch # b


\* C26: the default branch always appears in the output of CollectState,
\* whatever the two stores hold.
C26_DefaultAlwaysListed ==
    (last.op = "CollectState" /\ last.err = "")
    => EntriesOf(last.val, DefaultBranch) # {}

\* hashi list in a repository whose root has another branch checked out,
\* while the default branch exists: the listing has no entry for it
C26_RootOnOtherBranch ==
    /\ last.op = "CollectState" /\ last.err = ""
    /\ worktrees[1].isMain /\ worktrees[1].branch = NameA
    /\ {DefaultBranch, NameA} \subseteq branches
    /\ EntriesOf(last.val, DefaultBranch) = {}


\* C27: in every State returned by CollectState, is_default is true exactly
\* when the branch of the entry is the configured default branch, for the
\* entries made from a worktree and for those made from a window alone.
C27_IsDefaultMatchesName ==
    (last.op = "CollectState" /\ last.err = "")
    => \A k \in 1..Len(last.val) :
          last.val[k].IsDefault = (last.val[k].Branch = DefaultBranch)

\* the listing holds an entry made from a window named after the default
\* branch, and its is_default is false
C27_WindowOnlyDefault ==
    /\ last.op = "CollectState" /\ last.err = ""
    /\ \E k \in 1..Len(last.val) :
          /\ last.val[k].Branch = DefaultBranch /\ last.val[k].Worktree = <<>>
          /\ last.val[k].Window /\ ~last.val[k].IsDefault


\* the four Status values and the string the specification gives each
FourStatuses ==
    {StatusOK, StatusWorktreeMissing, StatusOrphanedWindow, StatusOrphanedWorktree}

NameOfStatus(st) ==
    CASE st = StatusOK -> <<"ok">>
      [] st = StatusWorktreeMissing -> <<"worktree_missing">>
      [] st = StatusOrphanedWindow -> <<"orphaned_window">>
      [] st = StatusOrphanedWorktree -> <<"orphaned_worktree">>

Quoted(text) == <<Quote>> \o text \o <<Quote>>

RECURSIVE EscapedBody(_)
\* the inside of a JSON string: a quote or a backslash only after a backslash
EscapedBody(text) ==
    IF text = <<>> THEN TRUE
    ELSE IF Head(text) = Quote THEN FALSE
    ELSE IF Head(text) = Backslash
         THEN /\ Tail(text) # <<>>
              /\ Head(Tail(text)) \in {Quote, Backslash}
              /\ EscapedBody(Tail(Tail(text)))
    ELSE EscapedBody(Tail(text))

\* the text is a JSON string
IsJSONString(text) ==
    /\ Len(text) > 1 /\ Head(text) = Quote /\ text[Len(text)] = Quote
    /\ EscapedBody(SubSeq(text, 1 + 1, Len(text) - 1))

\* C28: for each of the four Status values marshal yields exactly its
\* string (ok, worktree_missing, orphaned_window, orphaned_worktree) and
\* unmarshal of that text yields the value again; unmarshal of any other
\* JSON string returns an error and leaves the target as it was.
C28_StatusJSONRoundTrip ==
    /\ (last.op = "MarshalJSON" /\ last.val \in FourStatuses)
       => last.a = Quoted(NameOfStatus(last.val))
    /\ last.op = "UnmarshalJSON"
       => /\ \A st \in FourStatuses :
                last.a = Quoted(NameOfStatus(st)) => last.err = "" /\ last.val = st
          /\ (/\ IsJSONString(last.a)
              /\ \A st \in FourStatuses : last.a # Quoted(NameOfStatus(st)))
             => last.err # "" /\ last.val = last.b

\* the text of a marshaled Status was read back into a target that held
\* another value
C28_Witness ==
    /\ last.op = "UnmarshalJSON" /\ last.err = ""
    /\ last.a = MarshalJSON(StatusOrphanedWorktree)
    /\ last.val = StatusOrphanedWorktree /\ last.b = StatusWorktreeMissing

\* a JSON string that is none of the four names was refused
C28_WitnessUnknown ==
    /\ last.op = "UnmarshalJSON" /\ last.err # ""
    /\ IsJSONString(last.a) /\ Len(last.a) = MaxData
    /\ last.val = StatusOrphanedWindow


\* the rules of the specification, by the reason given
Violated(reason, n) ==
    CASE reason = "branch name must not be empty" -> Len(n) = 0
      [] reason = "branch name contains whitespace" ->
            \E i \in 1..Len(n) : n[i] \in {" ", "\t"}
      [] reason = "branch name contains control character" ->
            \E i \in 1..Len(n) : n[i] \in {"\t", "\n"}
      [] reason = "branch name contains invalid character" ->
            \E i \in 1..Len(n) : n[i] \in {"~", "^", "*", "?", "[", "\\"}
      [] reason = "branch name contains ':'" -> \E i \in 1..Len(n) : n[i] = ":"
      [] reason = "branch name contains '..'" ->
            \E i \in 1..(Len(n) - 1) : n[i] = "." /\ n[i + 1] = "."
      [] reason = "branch name contains '@{'" ->
            \E i \in 1..(Len(n) - 1) : n[i] = "@" /\ n[i + 1] = "{"
      [] reason = "branch name must not start with '-'" -> n # <<>> /\ n[1] = "-"
      [] reason = "branch name must not start with '.'" -> n # <<>> /\ n[1] = "."
      [] reason = "branch name must not end with '.'" -> n # <<>> /\ n[Len(n)] = "."
      [] reason = "branch name must not end with '/'" -> n # <<>> /\ n[Len(n)] = "/"
      [] reason = "branch name must not end with '.lock'" ->
            \E pre \in {SubSeq(n, 1, k) : k \in 0..Len(n)} :
               n = pre \o <<".", "l", "o", "c", "k">>
      [] reason = "branch name contains '//'" ->
            \E i \in 1..(Len(n) - 1) : n[i] = "/" /\ n[i + 1] = "/"

\* the order of the specification: a name is rejected for a rule of the
\* first entry it violates
StatedOrder ==
    << {"branch name must not be empty"},
       {"branch name contains whitespace", "branch name contains control character"},
       {"branch name contains invalid character"},
       {"branch name contains ':'"},
       {"branch name contains '..'"},
       {"branch name contains '@{'"},
       {"branch name must not start with '-'", "branch name must not start with '.'"},
       {"branch name must not end with '.'", "branch name must not end with '/'",
        "branch name must not end with '.lock'"},
       {"branch name contains '//'"} >>

\* the order with '//' ahead of the trailing '.lock', and whitespace ahead
\* of the control characters
TableOrder ==
    << {"branch name must not be empty"},
       {"branch name contains whitespace"},
       {"branch name contains control character"},
       {"branch name contains invalid character"},
       {"branch name contains ':'"},
       {"branch name contains '..'"},
       {"branch name contains '@{'"},
       {"branch name must not start with '-'", "branch name must not start with '.'"},
       {"branch name must not end with '.'", "branch name must not end with '/'"},
       {"branch name contains '//'"},
       {"branch name must not end with '.lock'"} >>

\* err is what a Validator that follows order answers for n
FollowsOrder(order, n, err) ==
    LET hit == {g \in 1..Len(order) : \E r \in order[g] : Violated(r, n)}
    IN IF hit = {} THEN err = ""
       ELSE \E g \in hit :
               /\ \A h \in hit : g <= h
               /\ err \in order[g] /\ Violated(err, n)

\* C29 as stated: the Validator rejects a name with the reason of the first
\* rule it violates in the order empty; whitespace or control character;
\* one of ~ ^ * ? [ \; ':'; '..'; '@{'; leading '-' or '.'; trailing '.',
\* '/' or '.lock'; '//', and accepts every name that violates none.
C29_ValidatorStatedOrder ==
    last.op = "ValidateBranchName" => FollowsOrder(StatedOrder, last.a, last.err)

\* C29: the Validator rejects a name with the reason of the first rule it
\* violates in the order empty; whitespace; control character; one of
\* ~ ^ * ? [ \; ':'; '..'; '@{'; leading '-' or '.'; trailing '.' or '/';
\* '//'; trailing '.lock', and accepts every name that violates none.
C29_ValidatorTableOrder ==
    last.op = "ValidateBranchName" => FollowsOrder(TableOrder, last.a, last.err)

\* a name that holds '//' and ends with '.lock' was rejected for the '//'
C29_Witness ==
    /\ last.op = "ValidateBranchName"
    /\ Violated("branch name contains '//'", last.a)
    /\ Violated("branch name must not end with '.lock'", last.a)
    /\ last.err = "branch name contains '//'"

\* a name that violates no rule was accepted
C29_WitnessAccepted ==
    /\ last.op = "ValidateBranchName" /\ last.err = ""
    /\ Len(last.a) > Len(<<".", "l", "o", "c", "k">>)


\* C30: whenever New, Switch or Rename creates a new worktree and post_new
\* hooks are configured, the hooks are executed: the call that creates the
\* session or the window in that same operation is handed the non-empty
\* init command, whether or not a window named after the branch existed.
C30_HooksHandedOnCreate ==
    (/\ last.op \in {"New", "Switch", "Rename"} /\ last.err = ""
     /\ last.created /\ last.hooks)
    => \E i \in InitHanded(Log) : Log[i].ok

\* New or Switch created the worktree with hooks configured while a window
\* named after the branch was there: the window is kept, the directory is
\* sent to it, and no call is handed the init command
C30_WindowExisted ==
    /\ last.op \in {"New", "Switch"} /\ last.err = ""
    /\ last.created /\ last.hooks
    /\ Succeeded("AddWorktree") \cup Succeeded("AddWorktreeNewBranch") # {}
    /\ Succeeded("ListWindows") # {}
    /\ Issued("NewSession") \cup Issued("NewWindow") = {}
    /\ InitHanded(Log) = {}


\* the step brings back nothing of branch b: what of b is absent stays absent
StaysRemoved(b) ==
    /\ b \notin branches => b \notin branches'
    /\ WorktreesOf(worktrees, b) = {} => WorktreesOf(worktrees', b) = {}
    /\ WindowsNamed(windows, b) = {} => WindowsNamed(windows', b) = {}

\* C31: hashi remove processes its branches in argument order; a declined
\* confirmation (closed stdin included) performs no mutation for the branch
\* and the run goes on with the next one; an error from PrepareRemove or
\* ExecuteRemove aborts the run, after which no branch is inspected or
\* mutated, and the branches removed before stay removed; with -f no
\* confirmation is requested.
C31_RemoveRun ==
    [][/\ steps.pc \notin {"aborted", "finished"}
       /\ steps.rest # <<>> /\ last'.a = Head(steps.rest)
       /\ last'.op = "PrepareRemove" => steps'.rest = steps.rest
       /\ last'.op = "Decline"
          => /\ ~steps.force
             /\ last'.log = <<>>
             /\ StoresUnchanged
             /\ steps'.rest = Tail(steps.rest)
             /\ steps'.pc = IF steps'.rest = <<>> THEN "finished" ELSE "loop"
       /\ last'.err # ""
          => steps'.pc = "aborted" /\ steps'.removed = steps.removed
       /\ (last'.op = "ExecuteRemove" /\ last'.err = "")
          => /\ steps'.rest = Tail(steps.rest)
             /\ steps'.removed = steps.removed \cup {last'.a}
       /\ steps.force => steps.pc # "confirm" /\ steps'.pc # "confirm"
       /\ \A b \in steps.removed : StaysRemoved(b)]_vars

\* the first branch was declined and the second removed
C31_Witness ==
    /\ steps.pc = "finished" /\ ~steps.force
    /\ Len(steps.args) = MaxArgs
    /\ steps.args[1] # steps.args[MaxArgs]
    /\ steps.removed = {steps.args[MaxArgs]}
    /\ last.op = "ExecuteRemove" /\ last.err = ""

\* the first branch was removed and the run aborted at the second, with -f
C31_WitnessAbort ==
    /\ steps.pc = "aborted" /\ steps.force
    /\ steps.removed = {steps.args[1]}
    /\ Len(steps.rest) = 1 /\ steps.rest[1] # steps.args[1]
    /\ last.op = "ExecuteRemove" /\ last.err # ""


\* the calls of an operation's log that create a session or a window
Made(log) == IssuedIn(log, "NewSession") \cup IssuedIn(log, "NewWindow")

\* ensureTmux returned nil: its queries answered and what it created succeeded
EnsureReturnedNil(log, hadSession) ==
    /\ SucceededIn(log, "HasSession") # {}
    /\ hadSession => SucceededIn(log, "ListWindows") # {}
    /\ \A i \in Made(log) : log[i].ok

\* C32: the ensureTmux of a New or a Switch of branch b issues at most one of
\* NewSession and NewWindow, each for window b: NewSession exactly when
\* HasSession answered and the session was absent, NewWindow exactly when the
\* session was there, ListWindows answered and no window was named b, and
\* neither when a window named b was there.  When ensureTmux returns nil the
\* session has a window named b, and as many of them as before or one.
C32_EnsureTmuxCreatesOnce ==
    [][(steps.pc \in {"idle", "switched"} /\ last'.op \in {"New", "Switch"})
       => LET log == last'.log
              b == last'.a
              had == Cardinality(WindowsNamed(windows, b))
          IN /\ Cardinality(Made(log)) <= 1
             /\ \A i \in Made(log) : log[i].arg[1] = b
             /\ IssuedIn(log, "NewSession") # {}
                <=> (SucceededIn(log, "HasSession") # {} /\ ~session)
             /\ IssuedIn(log, "NewWindow") # {}
                <=> /\ SucceededIn(log, "HasSession") # {} /\ session
                    /\ SucceededIn(log, "ListWindows") # {} /\ had = 0
             /\ had > 0 => Made(log) = {}
             /\ EnsureReturnedNil(log, session)
                => /\ session'
                   /\ Cardinality(WindowsNamed(windows', b))
                      = IF had = 0 THEN 1 ELSE had]_vars

\* a New opens the window of its branch in a session that has other windows
C32_Witness ==
    /\ last.op = "New" /\ last.err = ""
    /\ Succeeded("NewWindow") # {} /\ Issued("NewSession") = {}
    /\ Cardinality(WindowsNamed(windows, last.a)) = 1
    /\ Len(windows) > 1

\* a Switch starts the session with the window of its branch
C32_WitnessSession ==
    /\ last.op = "Switch" /\ last.err = ""
    /\ Succeeded("NewSession") # {} /\ Issued("NewWindow") = {}
    /\ Cardinality(WindowsNamed(windows, last.a)) = 1

\* a Switch finds the window of its branch and creates nothing
C32_WitnessNeither ==
    /\ last.op = "Switch" /\ last.err = "" /\ ~last.again
    /\ Succeeded("ListWindows") # {}
    /\ Made(Log) = {}
    /\ Cardinality(WindowsNamed(windows, last.a)) = 1


\* the calls sendCd makes
CdCalls == {"PaneCurrentCommand", "SendKeys"}

\* the calls of sendCd in the record l of an operation: keys only after an
\* inspection that answered with a shell, and the operation goes on
CdOnlyIntoShell(l) ==
    LET log == l.log
        keys == IssuedIn(log, "SendKeys")
        asked == IssuedIn(log, "PaneCurrentCommand")
    IN /\ \A k \in keys :
             /\ k > 1
             /\ log[k - 1].call = "PaneCurrentCommand" /\ log[k - 1].ok
             /\ log[k - 1].arg[1] = log[k].arg[1]
             /\ isShellCommand(l.pane)
       /\ \A k \in asked :
             /\ (~log[k].ok \/ ~isShellCommand(l.pane)) => keys = {}
             /\ (log[k].ok /\ isShellCommand(l.pane)) => k + 1 \in keys
       /\ \A k \in asked \cup keys :
             /\ \E j \in (k + 1)..Len(log) : log[j].call \notin CdCalls
             /\ l.err # ""
                => \E j \in (k + 1)..Len(log) :
                       log[j].call \notin CdCalls /\ ~log[j].ok

\* C33: in New, Switch, Rename and ExecuteRemove, every SendKeys follows at
\* once a PaneCurrentCommand of the same window that succeeded and reported a
\* command of the shell list; when the inspection failed or reported another
\* command no SendKeys is issued; and after either the operation goes on to
\* its next call and returns an error only when a later call of another kind
\* failed.
C33_CdOnlyIntoShell ==
    [][last'.op \in {"New", "Switch", "Rename", "ExecuteRemove"}
       => CdOnlyIntoShell(last')]_vars

\* the keys went to a pane that runs a shell
C33_Witness ==
    /\ last.op = "Switch" /\ last.err = ""
    /\ Succeeded("PaneCurrentCommand") # {} /\ last.pane = ShellCmd
    /\ Succeeded("SendKeys") # {}

\* the pane runs something else: no keys, and the operation succeeds
C33_WitnessOther ==
    /\ last.op = "Switch" /\ last.err = ""
    /\ Succeeded("PaneCurrentCommand") # {} /\ last.pane = OtherCmd
    /\ Issued("SendKeys") = {}

\* the inspection failed: no keys, and the operation succeeds
C33_WitnessError ==
    /\ last.op \in {"Rename", "ExecuteRemove"} /\ last.err = ""
    /\ Failed("PaneCurrentCommand") # {}
    /\ Issued("SendKeys") = {}


\* the log of an execute is the registered compensations, last registered first
ReplayedInReverse(log, actions) ==
    /\ Len(log) = Len(actions)
    /\ \A i \in 1..Len(log) :
          /\ log[i].call = "RenameBranch"
          /\ log[i].arg = <<actions[Len(actions) + 1 - i].a,
                            actions[Len(actions) + 1 - i].b>>

\* C34: an execute of an armed rollback stack issues the registered
\* compensations once each, the last registered first, whichever of them
\* fail; an execute of a disarmed stack issues nothing and leaves the stores
\* as they were; and a Rename that returns no error has not renamed the
\* branch back.
C34_RollbackExecute ==
    [][/\ (steps.pc = "open" /\ last'.op = "execute")
          => IF steps.rb.armed
             THEN ReplayedInReverse(last'.log, steps.rb.actions)
             ELSE last'.log = <<>> /\ StoresUnchanged
       /\ (steps.pc = "open" /\ last'.op = "Rename" /\ last'.err = "")
          => /\ IssuedWithIn(last'.log, "RenameBranch", <<last'.b, last'.a>>) = {}
             /\ SucceededIn(last'.log, "RenameBranch") # {}
             /\ last'.b \in branches' /\ last'.a \notin branches']_vars

\* an execute went on after a compensation that git refused
C34_Witness ==
    /\ steps.pc = "executed" /\ steps.rb.armed
    /\ Len(steps.rb.actions) = MaxActions
    /\ steps.rb.actions[1] # steps.rb.actions[MaxActions]
    /\ Len(Log) = MaxActions
    /\ ~Log[1].ok /\ Log[2].ok
    /\ steps.fails = 0

\* an execute after disarm
C34_WitnessDisarmed ==
    /\ steps.pc = "executed" /\ ~steps.rb.armed
    /\ Len(steps.rb.actions) = MaxActions
    /\ last.op = "execute"

\* a Rename that succeeded
C34_WitnessRename ==
    /\ steps.pc = "renamed" /\ last.op = "Rename" /\ last.err = ""


\* the calls of rollbackNew in a log
Removing(log) == IssuedIn(log, "RemoveWorktree") \cup IssuedIn(log, "DeleteBranch")

\* the copy or ensureTmux failed: the failures after which New calls rollbackNew
RolledBack(log) ==
    \E i \in 1..Len(log) :
        /\ ~log[i].ok
        /\ log[i].call \in {"copyFiles", "HasSession", "NewSession", "ListWindows",
                            "NewWindow"}

\* C35: in every New of branch b, a RemoveWorktree is issued only for the
\* worktree this call added and a DeleteBranch only for the branch this call
\* created, the RemoveWorktree first; when the copy or ensureTmux fails after
\* the call created both, both are issued, the DeleteBranch also after a
\* failed RemoveWorktree; when it fails after the call added a worktree to
\* a branch that was there, RemoveWorktree is issued, the worktree is gone
\* when it succeeds, no DeleteBranch is issued and the branch stays; and a
\* New that created nothing issues neither and leaves branches and
\* worktrees as they were.
C35_RollbackNewOnlyCreated ==
    [][(steps.pc = "idle" /\ last'.op = "New")
       => LET log == last'.log
              b == last'.a
              path == WorktreePath(b)
              added == SucceededIn(log, "AddWorktree")
              both == SucceededIn(log, "AddWorktreeNewBranch")
              rm == IssuedIn(log, "RemoveWorktree")
              del == IssuedIn(log, "DeleteBranch")
          IN /\ rm # {} => /\ added \cup both # {}
                           /\ rm = IssuedWithIn(log, "RemoveWorktree", <<path>>)
                           /\ Cardinality(rm) = 1
             /\ del # {} => /\ both # {} /\ b \notin branches
                            /\ del = IssuedWithIn(log, "DeleteBranch", <<b>>)
                            /\ Cardinality(del) = 1
                            /\ \E i \in rm : \A j \in del : i < j
             /\ (both # {} /\ RolledBack(log)) => (rm # {} /\ del # {})
             /\ (added # {} /\ RolledBack(log))
                => /\ b \in branches /\ b \in branches'
                   /\ rm # {} /\ del = {}
                   /\ SucceededIn(log, "RemoveWorktree") # {}
                      => WorktreesAt(worktrees', path) = {}
             /\ added \cup both = {}
                => /\ Removing(log) = {}
                   /\ branches' = branches /\ worktrees' = worktrees]_vars

\* the branch was there, New added its worktree, ensureTmux failed
C35_Witness ==
    /\ last.op = "New" /\ last.err # ""
    /\ Succeeded("AddWorktree") # {}
    /\ ~(Failed("copyFiles") # {})
    /\ RolledBack(Log)
    /\ Succeeded("RemoveWorktree") # {} /\ Issued("DeleteBranch") = {}
    /\ last.a \in branches /\ WorktreesAt(worktrees, WorktreePath(last.a)) = {}

\* the branch is deleted although the worktree removal failed
C35_WitnessRemovalFailed ==
    /\ last.op = "New" /\ last.err # ""
    /\ Succeeded("AddWorktreeNewBranch") # {}
    /\ Failed("RemoveWorktree") # {} /\ Issued("DeleteBranch") # {}

\* New created nothing and ensureTmux failed
C35_WitnessNothing ==
    /\ last.op = "New" /\ last.err # ""
    /\ Created = {} /\ RolledBack(Log) /\ Removing(Log) = {}


\* the names the client hands to the inner client for a call with names ns
Handed(c, ns) == [i \in 1..Len(ns) |-> c.prefix \o ns[i]]

\* the windows of the repository's session as the inner client holds them
InnerSession == InSession(windows, steps.client.prefix \o SessionName)

C36_WitnessEmpty ==
    /\ steps.client.kind = "inner"
    /\ last.op = "ListWindows" /\ last.err = ""
    /\ \E i \in 1..Len(last.val) : last.val[i] = DefaultPrefix \o NameA

\* a window made through the prefixed client
C36_WitnessCreated ==
    /\ steps.client.kind = "prefixed"
    /\ last.op = "NewWindow" /\ last.err = ""
    /\ windows[Len(windows)] = ServerWindow(DefaultPrefix \o SessionName,
                                            DefaultPrefix \o last.a)

\* C37: in a listing of the prefixed client no two windows of the session
\* have the same reported name, and no window whose name lacks the prefix is
\* reported under the name of a window that carries it.
C37_ManagedDistinguished ==
    (steps.client.kind = "prefixed" /\ last.op = "ListWindows" /\ last.err = "")
    => LET c == steps.client
           mine == InnerSession
       IN /\ \A i, j \in 1..Len(last.val) : last.val[i] = last.val[j] => i = j
          /\ \A i, j \in 1..Len(mine) :
                (~HasPrefix(mine[i].name, c.prefix) /\ HasPrefix(mine[j].name, c.prefix))
                => last.val[i] # last.val[j]

\* the session holds a window a next to the window hs/a, both listed as a
C37_UnprefixedListed ==
    /\ steps.client.kind = "prefixed"
    /\ last.op = "ListWindows" /\ last.err = ""
    /\ Len(InnerSession) = 2
    /\ InnerSession[1].name = NameA
    /\ InnerSession[2].name = DefaultPrefix \o NameA
    /\ last.val = <<NameA, NameA>>


\* C38: a listing of CollectState has at most one State per branch name.
C38_OneStatePerBranch ==
    (last.op = "CollectState" /\ last.err = "")
    => \A i, j \in 1..Len(last.val) :
          last.val[i].Branch = last.val[j].Branch => i = j

\* two windows named a, no worktree of a: two States named a
C38_TwoWindowsOneName ==
    /\ last.op = "CollectState" /\ last.err = ""
    /\ Cardinality(WindowsNamed(WindowsRead, NameA)) = 2
    /\ Cardinality({k \in 1..Len(last.val) : last.val[k].Branch = NameA}) = 2

\* C39: in every State of a listing, active implies window; the status
\* worktree_missing or orphaned_window implies window and an empty worktree
\* path; the status orphaned_worktree implies a worktree path that is not
\* empty and is not the path of the main worktree.
C39_StateWellFormed ==
    (last.op = "CollectState" /\ last.err = "")
    => \A k \in 1..Len(last.val) :
          LET st == last.val[k]
          IN /\ st.Active => st.Window
             /\ st.Status \in {StatusWorktreeMissing, StatusOrphanedWindow}
                => (st.Window /\ st.Worktree = <<>>)
             /\ st.Status = StatusOrphanedWorktree
                => /\ st.Worktree # <<>>
                   /\ \A i \in 1..Len(worktrees) :
                         worktrees[i].isMain => st.Worktree # worktrees[i].path

\* a listing with an orphaned worktree, an orphaned window and an active
\* window whose worktree is missing
C39_Witness ==
    /\ last.op = "CollectState" /\ last.err = ""
    /\ \E k \in 1..Len(last.val) : last.val[k].Status = StatusOrphanedWorktree
    /\ \E k \in 1..Len(last.val) : last.val[k].Status = StatusOrphanedWindow
    /\ \E k \in 1..Len(last.val) :
          last.val[k].Status = StatusWorktreeMissing /\ last.val[k].Active

\* the main worktree has a branch that is not in the branch list: it is ok
C39_WitnessMain ==
    /\ last.op = "CollectState" /\ last.err = ""
    /\ \E k \in 1..Len(last.val) :
          /\ last.val[k].Worktree = RepoRoot
          /\ last.val[k].Branch \notin branches
          /\ last.val[k].Status = StatusOK

====
